---- MODULE Spec2Model ----
(***************************************************************************)
(* Model of gh-code-review-agent: the HTTP API (app/controllers), the      *)
(* Celery analysis job (app/tasks/task.py), the review-agent integration   *)
(* (app/agents/code_reviewer.py) and the persistence layer (app/utils/db). *)
(*                                                                         *)
(* Spec      the API process and the analysis jobs over the shared         *)
(*           database and broker, with faults of GitHub, the model         *)
(*           service, the broker and database commits.                     *)
(* FairSpec  the same system without database/broker faults, under weak    *)
(*           fairness of every step of the API and of the jobs.            *)
(* NormSpec  validate_response_schema and the job's pydantic pass applied  *)
(*           to one parsed model object.                                   *)
(* AgentSpec run_agent_review's retry loop against a fixed sequence of     *)
(*           model responses.                                              *)
(***************************************************************************)
EXTENDS Integers, Sequences, FiniteSets, TLC

VARIABLES
    tasks,      \* review_tasks as committed: task id -> row, or NoRow
    results,    \* review_results as committed: task id -> results_json, or NoRow
    sub,        \* the Submit request in flight (its open session and pending row)
    jobs,       \* the broker's messages and their executions: job handle -> job, or NoJob
    resp,       \* the response to the last Submit request
    fn          \* NormSpec / AgentSpec: the function call under study

vars == <<tasks, results, sub, jobs, resp, fn>>

(***************************************************************************)
(* Bounds of the model.                                                    *)
(***************************************************************************)
MaxTasks == 2
MaxFiles == 2
MaxIssues == 2
MaxLines == 2
MaxSegments == 3
MaxChanged == 201

TaskIds == 1..MaxTasks

\* ------------------------------------------------------------------------
\* Python strings as sequences of characters; JSON values as tagged records.
\* ------------------------------------------------------------------------
Upper == <<"A","B","C","D","E","F","G","H","I","J","K","L","M","N","O","P","Q","R","S","T","U","V","W","X","Y","Z">>
LowerAlpha == <<"a","b","c","d","e","f","g","h","i","j","k","l","m","n","o","p","q","r","s","t","u","v","w","x","y","z">>

LowerChar(c) ==
    IF \E i \in 1..26 : Upper[i] = c
    THEN LowerAlpha[CHOOSE i \in 1..26 : Upper[i] = c]
    ELSE c

Lower(s) == [i \in 1..Len(s) |-> LowerChar(s[i])]

IsSpace(c) == c \in {" ", "\t", "\n", "\r"}

RECURSIVE LStrip(_)
LStrip(s) == IF s # <<>> /\ IsSpace(Head(s)) THEN LStrip(Tail(s)) ELSE s

RECURSIVE RStrip(_)
RStrip(s) ==
    IF s # <<>> /\ IsSpace(s[Len(s)]) THEN RStrip(SubSeq(s, 1, Len(s) - 1)) ELSE s

Strip(s) == RStrip(LStrip(s))

Contains(s, part) ==
    \E i \in 1..(Len(s) - Len(part) + 1) : SubSeq(s, i, i + Len(part) - 1) = part

JAbsent == [k |-> "absent"]
JNull == [k |-> "null"]
JStr(s) == [k |-> "str", s |-> s]
JInt(n) == [k |-> "int", n |-> n]
JList(items) == [k |-> "list", items |-> items]
JDict(d) == [k |-> "dict", d |-> d]

Min(S) == CHOOSE x \in S : \A y \in S : x <= y

\* dict.get(key, default)
Get(d, key, default) == IF key \in DOMAIN d THEN d[key] ELSE default

Digits == <<"0","1","2","3","4","5","6","7","8","9">>

RECURSIVE NatStr(_)
NatStr(n) == IF n < 10 THEN <<Digits[n + 1]>> ELSE NatStr(n \div 10) \o <<Digits[(n % 10) + 1]>>

\* str(v) for the JSON values the model draws
PyStr(v) ==
    CASE v.k = "str" -> v.s
      [] v.k = "int" -> IF v.n < 0 THEN <<"-">> \o NatStr(0 - v.n) ELSE NatStr(v.n)
      [] v.k = "null" -> <<"N","o","n","e">>
      [] OTHER -> <<"?">>

\* bool(v): Python truthiness
Truthy(v) ==
    CASE v.k = "str" -> v.s # <<>>
      [] v.k = "int" -> v.n # 0
      [] v.k = "list" -> v.items # <<>>
      [] v.k = "dict" -> DOMAIN v.d # {}
      [] OTHER -> FALSE

IsDigit(c) == \E i \in 1..10 : Digits[i] = c
DigitVal(c) == (CHOOSE i \in 1..10 : Digits[i] = c) - 1

RECURSIVE DigitsVal(_)
DigitsVal(s) == IF s = <<>> THEN 0 ELSE DigitsVal(SubSeq(s, 1, Len(s) - 1)) * 10 + DigitVal(s[Len(s)])

AllDigits(s) == s # <<>> /\ \A i \in 1..Len(s) : IsDigit(s[i])

\* int(v): the integer as a JInt, or JNull where int() raises ValueError/TypeError
PyInt(v) ==
    CASE v.k = "int" -> JInt(v.n)
      [] v.k = "str" ->
            LET t == Strip(v.s)
                neg == t # <<>> /\ Head(t) = "-"
                pos == t # <<>> /\ Head(t) = "+"
                body == IF neg \/ pos THEN Tail(t) ELSE t
            IN  IF AllDigits(body)
                THEN JInt(IF neg THEN 0 - DigitsVal(body) ELSE DigitsVal(body))
                ELSE JNull
      [] OTHER -> JNull

S_style == <<"s","t","y","l","e">>
S_bug == <<"b","u","g">>
S_performance == <<"p","e","r","f","o","r","m","a","n","c","e">>
S_best_practice == <<"b","e","s","t","_","p","r","a","c","t","i","c","e">>
S_security == <<"s","e","c","u","r","i","t","y">>
S_best_practice_sp == <<"b","e","s","t"," ","p","r","a","c","t","i","c","e">>
S_bestpractice == <<"b","e","s","t","p","r","a","c","t","i","c","e">>
S_perf == <<"p","e","r","f">>
S_sec == <<"s","e","c">>
S_low == <<"l","o","w">>
S_medium == <<"m","e","d","i","u","m">>
S_high == <<"h","i","g","h">>
S_critical == <<"c","r","i","t","i","c","a","l">>
S_minor == <<"m","i","n","o","r">>

\* ------------------------------------------------------------------------
\* app/agents/code_reviewer.py: validate_response_schema
\* ------------------------------------------------------------------------
VALID_TYPES == {S_style, S_bug, S_performance, S_best_practice, S_security}
VALID_SEVERITIES == {S_low, S_medium, S_high}

\* `for x in v`: a list yields its items; a string or a dict yields strings, which
\* both loops skip as non-dicts; None or a number raises TypeError.
Iterable(v) == v.k \in {"list", "str", "dict"}
Items(v) == IF v.k = "list" THEN v.items ELSE <<>>

\* (mutant) the type is compared without lower-casing it
NormType_no_lower(issue) ==
    LET issue_type == Strip(PyStr(Get(issue, "type", JStr(S_style))))
    IN  IF issue_type = S_best_practice_sp \/ issue_type = S_bestpractice THEN S_best_practice
        ELSE IF issue_type \in {S_perf, S_performance} THEN S_performance
        ELSE IF issue_type \in {S_sec, S_security} THEN S_security
        ELSE IF issue_type \notin VALID_TYPES THEN S_style
        ELSE issue_type

NormType(issue) ==
    LET issue_type == Strip(Lower(PyStr(Get(issue, "type", JStr(S_style)))))
    IN  IF issue_type = S_best_practice_sp \/ issue_type = S_bestpractice THEN S_best_practice
        ELSE IF issue_type \in {S_perf, S_performance} THEN S_performance
        ELSE IF issue_type \in {S_sec, S_security} THEN S_security
        ELSE IF issue_type \notin VALID_TYPES THEN S_style
        ELSE issue_type

\* (mutant) "low" and "minor" are looked for before "high" and "critical"
NormSeverity_low_first(issue) ==
    LET severity == Strip(Lower(PyStr(Get(issue, "severity", JStr(S_medium)))))
    IN  IF severity \notin VALID_SEVERITIES
        THEN IF Contains(severity, S_low) \/ Contains(severity, S_minor) THEN S_low
             ELSE IF Contains(severity, S_high) \/ Contains(severity, S_critical) THEN S_high
             ELSE S_medium
        ELSE severity

NormSeverity(issue) ==
    LET severity == Strip(Lower(PyStr(Get(issue, "severity", JStr(S_medium)))))
    IN  IF severity \notin VALID_SEVERITIES
        THEN IF Contains(severity, S_high) \/ Contains(severity, S_critical) THEN S_high
             ELSE IF Contains(severity, S_low) \/ Contains(severity, S_minor) THEN S_low
             ELSE S_medium
        ELSE severity

NormLine(issue) ==
    LET line == Get(issue, "line", JNull)
    IN  IF line.k = "null" THEN JNull
        ELSE IF Truthy(line) THEN PyInt(line) ELSE JNull

NormSuggestion(issue) ==
    LET suggestion == Get(issue, "suggestion", JNull)
    IN  IF Truthy(suggestion) THEN JStr(Strip(PyStr(suggestion))) ELSE JNull

ValidatedIssue(issue) ==
    [type |-> NormType(issue),
     line |-> NormLine(issue),
     description |-> Strip(PyStr(Get(issue, "description", JStr(<<>>)))),
     suggestion |-> NormSuggestion(issue),
     severity |-> NormSeverity(issue)]

\* (mutant) an issue with an empty description is kept
RECURSIVE ValidatedIssues_keep_empty(_)
ValidatedIssues_keep_empty(items) ==
    IF items = <<>> THEN <<>>
    ELSE LET issue == Head(items)
             rest == ValidatedIssues_keep_empty(Tail(items))
         IN  IF issue.k # "dict" THEN rest
             ELSE <<ValidatedIssue(issue.d)>> \o rest

RECURSIVE ValidatedIssues(_)
ValidatedIssues(items) ==
    IF items = <<>> THEN <<>>
    ELSE LET issue == Head(items)
             rest == ValidatedIssues(Tail(items))
         IN  IF issue.k # "dict" THEN rest
             ELSE IF ValidatedIssue(issue.d).description = <<>> THEN rest
             ELSE <<ValidatedIssue(issue.d)>> \o rest

RECURSIVE ValidatedFiles(_)
ValidatedFiles(items) ==
    IF items = <<>> THEN <<>>
    ELSE LET file_data == Head(items)
             rest == ValidatedFiles(Tail(items))
         IN  IF file_data.k # "dict" \/ "name" \notin DOMAIN file_data.d THEN rest
             ELSE <<[name |-> PyStr(file_data.d["name"]),
                     issues |-> ValidatedIssues(Items(Get(file_data.d, "issues", JList(<<>>))))]>>
                  \o rest

RECURSIVE SumLen(_)
SumLen(files) == IF files = <<>> THEN 0 ELSE Len(Head(files).issues) + SumLen(Tail(files))

RECURSIVE SumHigh(_)
SumHigh(files) ==
    IF files = <<>> THEN 0
    ELSE Cardinality({i \in 1..Len(Head(files).issues) : Head(files).issues[i].severity = S_high})
         + SumHigh(Tail(files))

ZeroSummary == [total_files |-> 0, total_issues |-> 0, critical_issues |-> 0]

\* validate_response_schema raises TypeError when `files`, or the `issues` of a
\* retained file entry, cannot be iterated.
ValidateRaises(payload) ==
    LET files == Get(payload, "files", JList(<<>>))
    IN  \/ ~Iterable(files)
        \/ \E i \in 1..Len(Items(files)) :
              LET file_data == Items(files)[i]
              IN  /\ file_data.k = "dict"
                  /\ "name" \in DOMAIN file_data.d
                  /\ ~Iterable(Get(file_data.d, "issues", JList(<<>>)))

\* (mutant) a summary present in the input is kept
validate_response_schema_keeps_summary(payload) ==
    LET validated_files == ValidatedFiles(Items(Get(payload, "files", JList(<<>>))))
        summary == [total_files |-> Len(validated_files),
                    total_issues |-> SumLen(validated_files),
                    critical_issues |-> SumHigh(validated_files)]
        given == Get(payload, "summary", JAbsent)
    IN  [key \in DOMAIN payload \cup {"files", "summary"} |->
            CASE key = "files" -> validated_files
              [] key = "summary" ->
                    IF given.k = "dict"
                    THEN [total_files |-> given.d.total_files.n,
                          total_issues |-> given.d.total_issues.n,
                          critical_issues |-> given.d.critical_issues.n]
                    ELSE summary
              [] OTHER -> payload[key]]

\* the payload returned: the input dict with `files` and `summary` replaced
validate_response_schema(payload) ==
    LET validated_files == ValidatedFiles(Items(Get(payload, "files", JList(<<>>))))
        summary == [total_files |-> Len(validated_files),
                    total_issues |-> SumLen(validated_files),
                    critical_issues |-> SumHigh(validated_files)]
    IN  [key \in DOMAIN payload \cup {"files", "summary"} |->
            CASE key = "files" -> validated_files
              [] key = "summary" -> summary
              [] OTHER -> payload[key]]

\* ------------------------------------------------------------------------
\* app/models/schema.py: ReviewResults.model_validate and model_dump, as the
\* job applies them to the payload returned by run_agent_review.
\* ------------------------------------------------------------------------
IssueTypeLiteral == VALID_TYPES \cup {S_best_practice_sp}
SeverityLiteral == {S_low, S_medium, S_high}

IssueConforms(i) ==
    /\ DOMAIN i = {"type", "line", "description", "suggestion", "severity"}
    /\ i.type \in IssueTypeLiteral
    /\ i.line.k \in {"int", "null"}
    /\ i.suggestion.k \in {"str", "null"}
    /\ i.severity \in SeverityLiteral

FileConforms(f) ==
    /\ DOMAIN f = {"name", "issues"}
    /\ \A j \in 1..Len(f.issues) : IssueConforms(f.issues[j])

\* (mutant) the model is configured with extra="forbid"
ModelValidates_forbid_extra(payload) ==
    /\ DOMAIN payload = {"files", "summary"}
    /\ \A i \in 1..Len(payload["files"]) : FileConforms(payload["files"][i])
    /\ DOMAIN payload["summary"] = {"total_files", "total_issues", "critical_issues"}

\* pydantic ignores keys the model does not declare (the default extra="ignore")
ModelValidates(payload) ==
    /\ {"files", "summary"} \subseteq DOMAIN payload
    /\ \A i \in 1..Len(payload["files"]) : FileConforms(payload["files"][i])
    /\ DOMAIN payload["summary"] = {"total_files", "total_issues", "critical_issues"}

\* only the declared fields are dumped
model_dump(payload) == [files |-> payload["files"], summary |-> payload["summary"]]

\* ------------------------------------------------------------------------
\* The system: rows, broker messages, the inputs the environment supplies.
\* ------------------------------------------------------------------------
MAX_RETRIES == 3

NoRow == [none |-> TRUE]
NoJob == [none |-> TRUE]
NoPayload == [none |-> TRUE]
NoResp == [op |-> "none"]
NoHandle == 0
Handles == 1..MaxTasks

\* TaskStatus
TaskStatus == {"pending", "processing", "completed", "failed"}

\* AnalyzePRRequest.github_token: Optional[str]
Tokens == {"None", "ghp_x"}

\* a ReviewTask as Submit inserts it (column defaults of db_models.ReviewTask)
ReviewTask(handle) ==
    [status |-> "pending", error |-> "None", started_at |-> FALSE,
     completed_at |-> FALSE, celery_task_id |-> handle]

\* lines of a unified diff
L_hunk == <<"@","@"," ","-","1"," ","+","1"," ","@","@">>
L_plusfile == <<"+","+","+"," ","b","/","a">>
L_added == <<"+","x"," ","=","1">>
L_removed == <<"-","y">>
L_blank_added == <<"+">>

StartsWith(line, prefix) ==
    Len(line) >= Len(prefix) /\ SubSeq(line, 1, Len(prefix)) = prefix

\* entries of GET /pulls/{n}/files: `patch` is absent for a binary file
F_nopatch == [filename |-> "img.png", patch |-> <<>>]
F_added == [filename |-> "a.py", patch |-> <<L_plusfile, L_hunk, L_added>>]
F_deleted == [filename |-> "b.py", patch |-> <<L_hunk, L_removed>>]
F_blank == [filename |-> "c.py", patch |-> <<L_hunk, L_blank_added>>]

PRFileLists == {<<F_nopatch, F_added>>, <<F_added, F_deleted>>, <<F_blank>>}

\* task.py: the added lines of a file's patch, without their leading "+"
RECURSIVE added_lines(_)
added_lines(patch) ==
    IF patch = <<>> THEN <<>>
    ELSE LET line == Head(patch)
             rest == added_lines(Tail(patch))
         IN  IF StartsWith(line, <<"+","+","+">>) \/ StartsWith(line, <<"-","-","-">>)
                \/ StartsWith(line, <<"@","@">>)
             THEN rest
             ELSE IF StartsWith(line, <<"+">>) THEN <<Tail(line)>> \o rest
             ELSE rest

\* "\n".join(added).splitlines() for lines that hold no line break: a trailing
\* empty string adds no line, and the empty content has no lines
content_lines(added) ==
    IF added = <<>> THEN <<>>
    ELSE IF added[Len(added)] = <<>> THEN SubSeq(added, 1, Len(added) - 1)
    ELSE added

\* ------------------------------------------------------------------------
\* app/services/static_checks.py: run_static_checks
\* ------------------------------------------------------------------------
LINE_TOO_LONG == 120

\* \w of the regular expressions, for the characters the model draws
IsWordChar(c) ==
    \/ \E i \in 1..26 : Upper[i] = c \/ LowerAlpha[i] = c
    \/ IsDigit(c) \/ c = "_"

\* the characters of `word` stand in `line` from position i on
At(line, i, word) ==
    i >= 1 /\ i + Len(word) - 1 <= Len(line) /\ SubSeq(line, i, i + Len(word) - 1) = word

\* \b between positions i - 1 and i of `line`
WordBoundary(line, i) ==
    LET before == i > 1 /\ IsWordChar(line[i - 1])
        after == i <= Len(line) /\ IsWordChar(line[i])
    IN  before # after

\* positions a..b of `line` hold only white space (\s*), or only word characters
AllSpace(line, a, b) == \A k \in a..b : IsSpace(line[k])
AllWord(line, a, b) == \A k \in a..b : IsWordChar(line[k])

\* re.compile(r"\b(eval|exec)\s*\(").search(line)
search_eval_exec(line) ==
    \E i \in 1..Len(line) :
        /\ At(line, i, <<"e","v","a","l">>) \/ At(line, i, <<"e","x","e","c">>)
        /\ WordBoundary(line, i)
        /\ \E j \in (i + 4)..Len(line) : AllSpace(line, i + 4, j - 1) /\ line[j] = "("

\* re.compile(r"except\s*:\s*pass\b").search(line)
search_except_pass(line) ==
    \E i \in 1..Len(line) :
        /\ At(line, i, <<"e","x","c","e","p","t">>)
        /\ \E j \in (i + 6)..Len(line) :
              /\ AllSpace(line, i + 6, j - 1) /\ line[j] = ":"
              /\ \E k \in (j + 1)..Len(line) :
                    /\ AllSpace(line, j + 1, k - 1) /\ At(line, k, <<"p","a","s","s">>)
                    /\ WordBoundary(line, k + 4)

\* re.compile(r"\bprint\(").search(line)
search_print(line) ==
    \E i \in 1..Len(line) : At(line, i, <<"p","r","i","n","t","(">>) /\ WordBoundary(line, i)

\* re.compile(r"for\s+.+:\s*\n\s*\w+\s*\+=\s*\w+").search(line): the match spans
\* a line break, with `for`, white space and at least one character before a
\* colon ahead of it and `name += name` after it
search_loop_concat(line) ==
    \E i \in 1..Len(line) :
        /\ At(line, i, <<"f","o","r">>)
        /\ \E s \in (i + 3)..Len(line), c \in (i + 5)..Len(line), n \in (i + 6)..Len(line) :
              /\ AllSpace(line, i + 3, s) /\ s + 1 < c /\ c < n
              /\ line[c] = ":" /\ line[n] = "\n"
              /\ \A k \in (s + 1)..(c - 1) : line[k] # "\n"
              /\ AllSpace(line, c + 1, n - 1)
              /\ \E w \in (n + 1)..Len(line), p \in (n + 2)..Len(line) :
                    /\ w < p /\ At(line, p, <<"+","=">>)
                    /\ IsWordChar(line[w]) /\ AllSpace(line, n + 1, w - 1)
                    /\ \E e \in w..(p - 1) : AllWord(line, w, e) /\ AllSpace(line, e + 1, p - 1)
                    /\ \E v \in (p + 2)..Len(line) :
                          AllSpace(line, p + 2, v - 1) /\ IsWordChar(line[v])

\* re.compile(r"def\s+\w+\(.*=\s*\[|\{\|\(\)").search(line): a default value
\* that opens a list, or the literal text {|()
search_mutable_default(line) ==
    \/ \E i \in 1..Len(line) : At(line, i, <<"{","|","(",")">>)
    \/ \E i \in 1..Len(line) :
          /\ At(line, i, <<"d","e","f">>) /\ i + 3 <= Len(line) /\ IsSpace(line[i + 3])
          /\ \E w \in (i + 4)..Len(line), p \in (i + 5)..Len(line) :
                /\ w < p /\ AllSpace(line, i + 3, w - 1) /\ AllWord(line, w, p - 1)
                /\ line[p] = "("
                /\ \E q \in (p + 1)..Len(line), b \in (p + 2)..Len(line) :
                      /\ q < b /\ line[q] = "=" /\ AllSpace(line, q + 1, b - 1) /\ line[b] = "["
                      /\ \A k \in (p + 1)..(q - 1) : line[k] # "\n"

\* (mutant) the line loop compares with >= LINE_TOO_LONG
RECURSIVE line_too_long_ge(_, _)
line_too_long_ge(lines, idx) ==
    IF idx > Len(lines) THEN <<>>
    ELSE (IF Len(lines[idx]) >= LINE_TOO_LONG
          THEN <<[type |-> S_style, line |-> idx,
                  description |-> <<"L","i","n","e"," ","t","o","o"," ","l","o","n","g",":"," ">> \o NatStr(Len(lines[idx])) \o <<" ","c","h","a","r","s">>,
                  suggestion |-> JStr(<<"L","i","m","i","t"," ","t","o"," ","<","="," ">> \o NatStr(LINE_TOO_LONG)
                                      \o <<" ","c","h","a","r","s",";"," ","w","r","a","p"," ","o","r"," ","r","e","f","a","c","t","o","r">>),
                  severity |-> S_low]>>
          ELSE <<>>)
         \o line_too_long_ge(lines, idx + 1)

\* the findings of the line loop: one for each line longer than LINE_TOO_LONG
RECURSIVE line_too_long(_, _)
line_too_long(lines, idx) ==
    IF idx > Len(lines) THEN <<>>
    ELSE (IF Len(lines[idx]) > LINE_TOO_LONG
          THEN <<[type |-> S_style, line |-> idx,
                  description |-> <<"L","i","n","e"," ","t","o","o"," ","l","o","n","g",":"," ">> \o NatStr(Len(lines[idx])) \o <<" ","c","h","a","r","s">>,
                  suggestion |-> JStr(<<"L","i","m","i","t"," ","t","o"," ","<","="," ">> \o NatStr(LINE_TOO_LONG)
                                      \o <<" ","c","h","a","r","s",";"," ","w","r","a","p"," ","o","r"," ","r","e","f","a","c","t","o","r">>),
                  severity |-> S_low]>>
          ELSE <<>>)
         \o line_too_long(lines, idx + 1)

\* one entry of PATTERNS applied to `line`, reported at `idx`
pattern_finding(found, t, msg, idx) ==
    IF found
    THEN <<[type |-> t, line |-> idx, description |-> msg, suggestion |-> JNull,
            severity |-> IF t # S_security THEN S_medium ELSE S_high]>>
    ELSE <<>>

\* run_static_checks on a content whose splitlines() are `lines`. The PATTERNS
\* loop stands after the line loop, not inside it: it reads the loop variables
\* `line` and `idx` as the last iteration left them, and they are unbound when
\* the content has no lines (UnboundLocalError).
run_static_checks(lines) ==
    IF lines = <<>> THEN [raised |-> TRUE, issues |-> <<>>]
    ELSE LET idx == Len(lines)
             line == lines[idx]
         IN  [raised |-> FALSE,
              issues |->
                 line_too_long(lines, 1)
                 \o pattern_finding(search_eval_exec(line), S_security,
                                    <<"A","v","o","i","d"," ","e","v","a","l","/","e","x","e","c",";"," ","u","s","e"," ","s","a","f","e","r"," ","a","l","t","e","r","n","a","t","i","v","e","s">>, idx)
                 \o pattern_finding(search_except_pass(line), S_bug,
                                    <<"D","o"," ","n","o","t"," ","u","s","e"," ","b","a","r","e"," ","e","x","c","e","p","t",":","p","a","s","s",";"," ","l","o","g"," ","o","r"," ","h","a","n","d","l","e"," ","s","p","e","c","i","f","i","c"," ","e","x","c","e","p","t","i","o","n","s">>, idx)
                 \o pattern_finding(search_print(line), S_best_practice,
                                    <<"U","s","e"," ","s","t","r","u","c","t","u","r","e","d"," ","l","o","g","g","i","n","g"," ","i","n","s","t","e","a","d"," ","o","f"," ","p","r","i","n","t"," ","s","t","a","t","e","m","e","n","t","s">>, idx)
                 \o pattern_finding(search_loop_concat(line), S_performance,
                                    <<"S","t","r","i","n","g"," ","c","o","n","c","a","t"," ","i","n"," ","l","o","o","p","s",";"," ","p","r","e","f","e","r"," ","j","o","i","n"," ","o","r"," ","i","o",".","S","t","r","i","n","g","I","O">>, idx)
                 \o pattern_finding(search_mutable_default(line), S_bug,
                                    <<"M","u","t","a","b","l","e"," ","d","e","f","a","u","l","t"," ","a","r","g","u","m","e","n","t","s"," ","c","a","n"," ","c","a","u","s","e"," ","b","u","g","s">>, idx)]

\* the call raises instead of returning findings
run_static_checks_raises(content) == run_static_checks(content).raised

\* task.py: the per-file loop raises at the first file with a patch whose
\* added content has no lines
StaticChecksRaise(files) ==
    \E i \in 1..Len(files) :
        /\ files[i].patch # <<>>
        /\ run_static_checks_raises(content_lines(added_lines(files[i].patch)))

\* ------------------------------------------------------------------------
\* app/agents/code_reviewer.py: extract_json_from_response, with json.loads
\* for the JSON made of objects, arrays, strings, integers and white space.
\* ------------------------------------------------------------------------
\* a str of the characters of `s`, to serve as a dict key
RECURSIVE Key(_)
Key(s) == IF s = <<>> THEN "" ELSE Head(s) \o Key(Tail(s))

NoParse == [ok |-> FALSE, v |-> JNull, rest |-> <<>>]

\* the characters of a JSON string after its opening quote, up to the closing
\* one: an escape gives its character; a raw control character is an error
RECURSIVE ParseChars(_, _)
ParseChars(s, acc) ==
    IF s = <<>> THEN NoParse
    ELSE IF Head(s) = "\"" THEN [ok |-> TRUE, v |-> JStr(acc), rest |-> Tail(s)]
    ELSE IF Head(s) \in {"\n", "\r", "\t"} THEN NoParse
    ELSE IF Head(s) = "\\"
    THEN IF Len(s) < 2 THEN NoParse
         ELSE CASE s[2] \in {"\"", "\\", "/"} -> ParseChars(SubSeq(s, 3, Len(s)), Append(acc, s[2]))
                [] s[2] = "n" -> ParseChars(SubSeq(s, 3, Len(s)), Append(acc, "\n"))
                [] s[2] = "r" -> ParseChars(SubSeq(s, 3, Len(s)), Append(acc, "\r"))
                [] s[2] = "t" -> ParseChars(SubSeq(s, 3, Len(s)), Append(acc, "\t"))
                [] OTHER -> NoParse
    ELSE ParseChars(Tail(s), Append(acc, Head(s)))

\* an integer: an optional minus sign and digits without a leading zero
ParseInteger(s) ==
    LET neg == s # <<>> /\ Head(s) = "-"
        body == IF neg THEN Tail(s) ELSE s
        n == IF body # <<>> /\ Head(body) = "0" THEN 1
             ELSE Cardinality({k \in 1..Len(body) : \A j \in 1..k : IsDigit(body[j])})
        value == DigitsVal(SubSeq(body, 1, n))
    IN  IF body = <<>> \/ ~IsDigit(Head(body)) THEN NoParse
        ELSE [ok |-> TRUE, v |-> JInt(IF neg THEN 0 - value ELSE value),
              rest |-> SubSeq(body, n + 1, Len(body))]

RECURSIVE ParseValue(_), ParseMembers(_, _), ParseElements(_, _)

\* a value at the head of `s`, after white space
ParseValue(s) ==
    LET t == LStrip(s)
    IN  IF t = <<>> THEN NoParse
        ELSE CASE Head(t) = "{" ->
                     IF LStrip(Tail(t)) # <<>> /\ Head(LStrip(Tail(t))) = "}"
                     THEN [ok |-> TRUE, v |-> JDict([key \in {} |-> JNull]),
                           rest |-> Tail(LStrip(Tail(t)))]
                     ELSE ParseMembers(Tail(t), [key \in {} |-> JNull])
               [] Head(t) = "[" ->
                     IF LStrip(Tail(t)) # <<>> /\ Head(LStrip(Tail(t))) = "]"
                     THEN [ok |-> TRUE, v |-> JList(<<>>), rest |-> Tail(LStrip(Tail(t)))]
                     ELSE ParseElements(Tail(t), <<>>)
               [] Head(t) = "\"" -> ParseChars(Tail(t), <<>>)
               [] OTHER -> ParseInteger(t)

\* "key": value pairs separated by commas, up to the closing brace; a comma
\* must be followed by another pair
ParseMembers(s, acc) ==
    LET t == LStrip(s)
        name == IF t # <<>> /\ Head(t) = "\"" THEN ParseChars(Tail(t), <<>>) ELSE NoParse
        colon == LStrip(name.rest)
        value == IF name.ok /\ colon # <<>> /\ Head(colon) = ":"
                 THEN ParseValue(Tail(colon)) ELSE NoParse
        after == LStrip(value.rest)
        dict == [key \in DOMAIN acc \cup {Key(name.v.s)} |->
                    IF key = Key(name.v.s) THEN value.v ELSE acc[key]]
    IN  IF ~value.ok \/ after = <<>> THEN NoParse
        ELSE IF Head(after) = "}" THEN [ok |-> TRUE, v |-> JDict(dict), rest |-> Tail(after)]
        ELSE IF Head(after) = "," THEN ParseMembers(Tail(after), dict)
        ELSE NoParse

\* values separated by commas, up to the closing bracket
ParseElements(s, acc) ==
    LET value == ParseValue(s)
        after == LStrip(value.rest)
    IN  IF ~value.ok \/ after = <<>> THEN NoParse
        ELSE IF Head(after) = "]"
        THEN [ok |-> TRUE, v |-> JList(Append(acc, value.v)), rest |-> Tail(after)]
        ELSE IF Head(after) = "," THEN ParseElements(Tail(after), Append(acc, value.v))
        ELSE NoParse

\* json.loads(text): the value, or JSONDecodeError (ok = FALSE)
json_loads(text) ==
    LET r == ParseValue(text)
    IN  IF r.ok /\ LStrip(r.rest) = <<>> THEN r ELSE NoParse

\* A backquote stands in the character sequences as "tick" (a TLA+ string
\* cannot hold the character itself).
\* The first re.sub of extract_json_from_response: every json fence opener
\* (three backticks and the word json) is removed with the white space after it
RECURSIVE sub_json_fence(_)
sub_json_fence(text) ==
    IF text = <<>> THEN <<>>
    ELSE IF At(text, 1, <<"tick","tick","tick","j","s","o","n">>) THEN sub_json_fence(LStrip(SubSeq(text, 8, Len(text))))
    ELSE <<Head(text)>> \o sub_json_fence(Tail(text))

\* the second re.sub: three backticks followed only by white space up to the
\* end of the text are removed with that white space
sub_closing_fence(text) ==
    LET at == {i \in 1..Len(text) : At(text, i, <<"tick","tick","tick">>) /\ AllSpace(text, i + 3, Len(text))}
    IN  IF at = {} THEN text ELSE SubSeq(text, 1, Min(at) - 1)

\* the first re.sub of fix_common_json_issues: a double quote that no
\* backslash precedes (lookbehind) and that is followed, after any characters
\* other than comma, closing brace, closing bracket and colon, by one of these
\* four (lookahead) gets a backslash in front of it
RECURSIVE escape_quotes(_, _)
escape_quotes(text, i) ==
    IF i > Len(text) THEN <<>>
    ELSE (IF /\ text[i] = "\""
             /\ ~(i > 1 /\ text[i - 1] = "\\")
             /\ \E j \in (i + 1)..Len(text) : text[j] \in {",", "}", "]", ":"}
          THEN <<"\\", "\"">>
          ELSE <<text[i]>>)
         \o escape_quotes(text, i + 1)

\* the second re.sub of fix_common_json_issues: a comma that only white space
\* separates from a closing brace or bracket is removed
RECURSIVE drop_trailing_commas(_, _)
drop_trailing_commas(text, i) ==
    IF i > Len(text) THEN <<>>
    ELSE (IF /\ text[i] = ","
             /\ \E j \in (i + 1)..Len(text) :
                   AllSpace(text, i + 1, j - 1) /\ text[j] \in {"}", "]"}
          THEN <<>>
          ELSE <<text[i]>>)
         \o drop_trailing_commas(text, i + 1)

\* the three str.replace calls: a line feed, a carriage return and a tab each
\* become a backslash and the letter n, r or t
RECURSIVE escape_breaks(_)
escape_breaks(text) ==
    IF text = <<>> THEN <<>>
    ELSE (CASE Head(text) = "\n" -> <<"\\", "n">>
            [] Head(text) = "\r" -> <<"\\", "r">>
            [] Head(text) = "\t" -> <<"\\", "t">>
            [] OTHER -> <<Head(text)>>)
         \o escape_breaks(Tail(text))

fix_common_json_issues(json_text) ==
    escape_breaks(drop_trailing_commas(escape_quotes(json_text, 1), 1))

\* the text with both fence patterns removed
strip_fences(text) == sub_closing_fence(sub_json_fence(text))

\* text[first_brace:last_brace + 1], or no braces found (found = FALSE)
json_boundaries(text) ==
    LET open == {i \in 1..Len(text) : text[i] = "{"}
        close == {i \in 1..Len(text) : text[i] = "}"}
    IN  IF open = {} \/ close = {} THEN [found |-> FALSE, json_text |-> <<>>]
        ELSE [found |-> TRUE,
              json_text |-> SubSeq(text, Min(open), CHOOSE i \in close : \A j \in close : j <= i)]

\* extract_json_from_response(text): the parsed value, or ValueError
extract_json_from_response(text) ==
    LET cut == json_boundaries(strip_fences(text))
        first == json_loads(cut.json_text)
        second == json_loads(fix_common_json_issues(cut.json_text))
    IN  IF ~cut.found THEN [raised |-> TRUE, v |-> JNull]
        ELSE IF first.ok THEN [raised |-> FALSE, v |-> first.v]
        ELSE IF second.ok THEN [raised |-> FALSE, v |-> second.v]
        ELSE [raised |-> TRUE, v |-> JNull]

\* ------------------------------------------------------------------------
\* app/services/github_service.py: GitHubClient._parse_repo_url
\* ------------------------------------------------------------------------
\* the first position of character c in s, or 0
Find(s, c) == IF \E i \in 1..Len(s) : s[i] = c THEN Min({i \in 1..Len(s) : s[i] = c}) ELSE 0

\* urlparse(repo_url).path for a URL with a scheme: the text after "://" and
\* the host, up to the fragment, the query and the parameters of the last
\* path segment
urlparse_path(repo_url) ==
    LET colon == Find(repo_url, ":")
        rest == SubSeq(repo_url, colon + 1, Len(repo_url))
        hostless == IF At(rest, 1, <<"/", "/">>)
                    THEN LET after == SubSeq(rest, 3, Len(rest))
                             ends == {i \in 1..Len(after) : after[i] \in {"/", "?", "#"}}
                         IN  IF ends = {} THEN <<>> ELSE SubSeq(after, Min(ends), Len(after))
                    ELSE rest
        cut(s, c) == IF Find(s, c) = 0 THEN s ELSE SubSeq(s, 1, Find(s, c) - 1)
        path == cut(cut(hostless, "#"), "?")
        slashes == {i \in 1..Len(path) : path[i] = "/"}
        last == IF slashes = {} THEN 0 ELSE CHOOSE i \in slashes : \A j \in slashes : j <= i
        semis == {i \in (last + 1)..Len(path) : path[i] = ";"}
    IN  IF semis = {} THEN path ELSE SubSeq(path, 1, Min(semis) - 1)

\* str.strip("/")
RECURSIVE StripSlashes(_)
StripSlashes(s) ==
    IF s # <<>> /\ Head(s) = "/" THEN StripSlashes(Tail(s))
    ELSE IF s # <<>> /\ s[Len(s)] = "/" THEN StripSlashes(SubSeq(s, 1, Len(s) - 1))
    ELSE s

\* (mutant) the path is split at every slash and the second piece is the repo
_parse_repo_url_second_piece(repo_url) ==
    LET path == StripSlashes(urlparse_path(repo_url))
        at == Find(path, "/")
        tail == SubSeq(path, at + 1, Len(path))
    IN  IF at = 0 THEN [raised |-> TRUE, owner |-> <<>>, repo |-> <<>>]
        ELSE [raised |-> FALSE, owner |-> SubSeq(path, 1, at - 1),
              repo |-> IF Find(tail, "/") = 0 THEN tail ELSE SubSeq(tail, 1, Find(tail, "/") - 1)]

\* owner, repo = path.split("/", 1): unpacking a single piece raises ValueError
_parse_repo_url(repo_url) ==
    LET path == StripSlashes(urlparse_path(repo_url))
        at == Find(path, "/")
    IN  IF at = 0 THEN [raised |-> TRUE, owner |-> <<>>, repo |-> <<>>]
        ELSE [raised |-> FALSE, owner |-> SubSeq(path, 1, at - 1),
              repo |-> SubSeq(path, at + 1, Len(path))]

\* raw issue dicts a model may return
I_high == JDict([type |-> JStr(S_bug), line |-> JInt(3), description |-> JStr(<<"d">>),
                 suggestion |-> JStr(<<"s">>), severity |-> JStr(S_high)])
I_critical == JDict([type |-> JStr(S_perf), description |-> JStr(<<" ","d">>),
                     severity |-> JStr(<<"C","r","i","t","i","c","a","l","!">>)])
I_low == JDict([type |-> JStr(S_style), line |-> JNull, description |-> JStr(<<"e">>),
                severity |-> JStr(S_minor)])
I_nodesc == JDict([type |-> JStr(S_security), line |-> JInt(1), description |-> JStr(<<" ">>),
                   severity |-> JStr(S_high)])
I_undescribed == JDict([type |-> JStr(S_bug), severity |-> JStr(S_low)])
I_junk == JStr(<<"x">>)

EmptyDict == [key \in {} |-> JNull]

\* parsed objects the model returns to the running system
O_empty == EmptyDict
O_nullfiles == [files |-> JNull]
O_review ==
    [files |-> JList(<<JDict([name |-> JStr(<<"a">>), issues |-> JList(<<I_high, I_nodesc, I_low>>)]),
                       JDict([issues |-> JList(<<I_high>>)]),
                       JDict([name |-> JStr(<<"b">>)])>>),
     summary |-> JDict([total_files |-> JInt(7), total_issues |-> JInt(9),
                        critical_issues |-> JInt(5)])]

\* what one invocation of the model yields: the service fails, the text holds
\* no braces, the text does not parse even after the repair pass, or an object
ModelFailures == {[kind |-> "unreachable"], [kind |-> "no_braces"], [kind |-> "bad_json"]}
ModelResponses ==
    ModelFailures \cup {[kind |-> "object", obj |-> o] : o \in {O_empty, O_nullfiles, O_review}}

\* one attempt of run_agent_review's loop body succeeds
AttemptSucceeds(r) == r.kind = "object" /\ ~ValidateRaises(r.obj)

\* run_agent_review's fallback result
FallbackResult ==
    [files |-> <<>>, summary |-> ZeroSummary,
     error |-> "Failed to parse agent response after 3 attempts"]

\* run_agent_review's locals when the loop starts
AgentStart ==
    [attempt |-> 0, calls |-> 0, returned |-> FALSE, ok |-> FALSE, raised |-> FALSE,
     ret |-> NoPayload]

\* ------------------------------------------------------------------------
\* Inputs of NormSpec: every parsed object with at most MaxFiles file entries,
\* with and without a summary of its own. An entry holds at most MaxIssues
\* retained issues (high or low), or an issue that is dropped before a retained
\* one, or has no name, or is no object.
\* ------------------------------------------------------------------------
SeqsUpTo(S, n) == UNION {[1..k -> S] : k \in 0..n}

NormIssues == {I_high, I_low}
NormFileEntries ==
    {JDict([name |-> JStr(<<"a">>), issues |-> JList(is)]) : is \in SeqsUpTo(NormIssues, MaxIssues)}
    \cup {JDict([name |-> JStr(<<"b">>), issues |-> JList(<<I_nodesc, I_high>>)]),
          JDict([name |-> JStr(<<"c">>), issues |-> JList(<<I_nodesc, I_undescribed>>)]),
          JDict([issues |-> JList(<<I_high>>)]), I_junk}
WrongSummary ==
    JDict([total_files |-> JInt(7), total_issues |-> JInt(9), critical_issues |-> JInt(5)])
O_nullissues == [files |-> JList(<<JDict([name |-> JStr(<<"a">>), issues |-> JNull])>>)]

ParsedObjects ==
    {[files |-> JList(fs), summary |-> WrongSummary] : fs \in SeqsUpTo(NormFileEntries, MaxFiles)}
    \cup {[files |-> JList(fs)] : fs \in SeqsUpTo(NormFileEntries, MaxFiles)}
    \cup {O_empty, O_nullfiles, O_nullissues, O_review}

\* ------------------------------------------------------------------------
\* Initial state
\* ------------------------------------------------------------------------
IdleSub == [pc |-> "idle", id |-> 0, token |-> "None", handle |-> NoHandle]
FnOff == [pc |-> "off"]

SysInit ==
    /\ tasks = [t \in TaskIds |-> NoRow]
    /\ results = [t \in TaskIds |-> NoRow]
    /\ sub = IdleSub
    /\ jobs = [h \in Handles |-> NoJob]
    /\ resp = NoResp

Init == SysInit /\ fn = FnOff

\* NormSpec: one parsed object about to be normalized, or the fallback result
\* about to be validated by the job
NormInit ==
    fn \in {[pc |-> "parsed", obj |-> o, out |-> NoPayload, doc |-> NoRow] : o \in ParsedObjects}
           \cup {[pc |-> "normalized", obj |-> EmptyDict, out |-> FallbackResult, doc |-> NoRow]}

\* AgentSpec: run_agent_review about to start against the responses the model
\* will give to successive invocations
AgentInit ==
    fn \in {[pc |-> "agent", responses |-> rs, a |-> AgentStart] :
                rs \in [1..(MAX_RETRIES + 1) -> ModelResponses]}

\* uuid4 values not yet seen anywhere
FreshIds ==
    {t \in TaskIds : /\ tasks[t] = NoRow
                     /\ \A h \in Handles : jobs[h] # NoJob => jobs[h].task_id # t}
FreshHandles == {h \in Handles : jobs[h] = NoJob}

\* the message celery.send_task puts on the broker, and the job's locals
Message(task_id, token) ==
    [task_id |-> task_id, token |-> token, pc |-> "queued",
     files |-> <<>>, agent |-> AgentStart, err |-> "None", raised |-> "None"]

Response(op, code, task_id, status, error, res) ==
    [op |-> op, code |-> code, task_id |-> task_id, status |-> status,
     error |-> error, results |-> res]

\* ------------------------------------------------------------------------
\* app/controllers/github_controller.py
\* ------------------------------------------------------------------------
\* (mutant) send_task is called without the caller's token
api_analyze_pr_send_no_token(token, broker_ok) ==
    /\ sub.pc = "idle"
    /\ FreshIds # {} /\ FreshHandles # {}
    /\ LET id == Min(FreshIds)
           h == Min(FreshHandles)
       IN  IF broker_ok
           THEN /\ sub' = [pc |-> "sent", id |-> id, token |-> token, handle |-> h]
                /\ jobs' = [jobs EXCEPT ![h] = Message(id, "None")]
                /\ resp' = resp
           ELSE /\ sub' = IdleSub
                /\ jobs' = jobs
                /\ resp' = Response("analyze_pr", 500, 0, "None", "None", JNull)
    /\ UNCHANGED <<tasks, results, fn>>

\* POST /github/analyze-pr, up to send_task: the row is added and flushed
\* inside the open transaction (not yet visible to other sessions), then the
\* job is sent. A broker fault leaves session_scope through rollback.
api_analyze_pr_send(token, broker_ok) ==
    /\ sub.pc = "idle"
    /\ FreshIds # {} /\ FreshHandles # {}
    /\ LET id == Min(FreshIds)
           h == Min(FreshHandles)
       IN  IF broker_ok
           THEN /\ sub' = [pc |-> "sent", id |-> id, token |-> token, handle |-> h]
                /\ jobs' = [jobs EXCEPT ![h] = Message(id, token)]
                /\ resp' = resp
           ELSE /\ sub' = IdleSub
                /\ jobs' = jobs
                /\ resp' = Response("analyze_pr", 500, 0, "None", "None", JNull)
    /\ UNCHANGED <<tasks, results, fn>>

\* POST /github/analyze-pr, the exit of session_scope: the response is built
\* from the flushed row, then the session commits (the row becomes visible) or
\* the commit faults and the session rolls back.
api_analyze_pr_commit(db_ok) ==
    /\ sub.pc = "sent"
    /\ IF db_ok
       THEN /\ tasks' = [tasks EXCEPT ![sub.id] = ReviewTask(sub.handle)]
            /\ resp' = Response("analyze_pr", 200, sub.id, ReviewTask(sub.handle).status,
                                "None", JNull)
       ELSE /\ tasks' = tasks
            /\ resp' = Response("analyze_pr", 500, 0, "None", "None", JNull)
    /\ sub' = IdleSub
    /\ UNCHANGED <<results, jobs, fn>>

\* GET /github/status/{task_id}
StatusResponse(task_id) ==
    IF tasks[task_id] = NoRow
    THEN Response("get_status", 404, task_id, "None", "None", JNull)
    ELSE Response("get_status", 200, task_id, tasks[task_id].status,
                  tasks[task_id].error, JNull)

\* the handler reads one row and writes nothing; its response goes to the caller
get_status(task_id) ==
    /\ StatusResponse(task_id).code \in {200, 404}
    /\ UNCHANGED <<tasks, results, sub, jobs, resp, fn>>

\* (mutant) the handler looks the result row up whatever the task's status
ResultsResponse_any_status(task_id) ==
    IF tasks[task_id] = NoRow
    THEN Response("get_results", 404, task_id, "None", "None", JNull)
    ELSE IF results[task_id] = NoRow
    THEN Response("get_results", 404, task_id, "None", "None", JNull)
    ELSE Response("get_results", 200, task_id, tasks[task_id].status, "None",
                  results[task_id])

\* GET /github/results/{task_id}
ResultsResponse(task_id) ==
    IF tasks[task_id] = NoRow
    THEN Response("get_results", 404, task_id, "None", "None", JNull)
    ELSE IF tasks[task_id].status # "completed"
    THEN Response("get_results", 200, task_id, tasks[task_id].status, "None", JNull)
    ELSE IF results[task_id] = NoRow
    THEN Response("get_results", 404, task_id, "None", "None", JNull)
    ELSE Response("get_results", 200, task_id, tasks[task_id].status, "None",
                  results[task_id])

\* (mutant) the handler deletes the result row once it has served it
get_results_consumes(task_id) ==
    /\ ResultsResponse(task_id).code \in {200, 404}
    /\ results' = IF ResultsResponse(task_id).results # JNull
                  THEN [results EXCEPT ![task_id] = NoRow]
                  ELSE results
    /\ UNCHANGED <<tasks, sub, jobs, resp, fn>>

\* the handler reads up to two rows and writes nothing
get_results(task_id) ==
    /\ ResultsResponse(task_id).code \in {200, 404}
    /\ UNCHANGED <<tasks, results, sub, jobs, resp, fn>>

\* ------------------------------------------------------------------------
\* app/agents/code_reviewer.py: run_agent_review
\* ------------------------------------------------------------------------
\* what the caller keeps of a finished call: the returned payload (`ok` records
\* which return statement produced it); the loop's locals are gone
Returned(a) == [AgentStart EXCEPT !.returned = TRUE, !.ok = a.ok, !.ret = a.ret]

\* (mutant) the loop runs one iteration too many
run_agent_review_attempt_off_by_one(a, r) ==
    LET called == [a EXCEPT !.calls = @ + 1, !.attempt = @ + 1]
    IN  IF AttemptSucceeds(r)
        THEN [called EXCEPT !.returned = TRUE, !.ok = TRUE,
                            !.ret = validate_response_schema(r.obj)]
        ELSE IF a.attempt < MAX_RETRIES
        THEN called
        ELSE [called EXCEPT !.returned = TRUE, !.ret = FallbackResult]

\* One iteration of the retry loop on the model's response r: the model is
\* invoked; a parsed and normalized object is returned at once; a failure of
\* the invocation, the extraction or the normalization is caught, and after
\* the last iteration the fallback result is returned.
run_agent_review_attempt(a, r) ==
    LET called == [a EXCEPT !.calls = @ + 1, !.attempt = @ + 1]
    IN  IF AttemptSucceeds(r)
        THEN [called EXCEPT !.returned = TRUE, !.ok = TRUE,
                            !.ret = validate_response_schema(r.obj)]
        ELSE IF a.attempt < MAX_RETRIES - 1
        THEN called
        ELSE [called EXCEPT !.returned = TRUE, !.ret = FallbackResult]

\* ------------------------------------------------------------------------
\* app/tasks/task.py: analyze_pr
\* ------------------------------------------------------------------------
Job(h) == jobs[h]
Row(h) == tasks[jobs[h].task_id]
Running(h, pc) == jobs[h] # NoJob /\ jobs[h].pc = pc

\* the job leaves the try body with exception `e`; the body's locals are dead
Raise(h, e) == [jobs EXCEPT ![h].pc = "except", ![h].err = e, ![h].files = <<>>,
                            ![h].token = "None", ![h].agent = AgentStart]

\* A worker takes the message: session.get; when the row is not visible the
\* job reports "Task not found" and returns; otherwise it marks the row
\* processing and commits.
job_start(h, db_ok) ==
    /\ Running(h, "queued")
    /\ IF Row(h) = NoRow
       THEN /\ db_ok
            /\ jobs' = [jobs EXCEPT ![h].pc = "done"]
            /\ tasks' = tasks
       ELSE IF db_ok
       THEN /\ tasks' = [tasks EXCEPT ![Job(h).task_id].status = "processing",
                                      ![Job(h).task_id].started_at = TRUE]
            /\ jobs' = [jobs EXCEPT ![h].pc = "list_pr_files"]
       ELSE /\ tasks' = tasks
            /\ jobs' = Raise(h, "OperationalError: commit (processing)")
    /\ UNCHANGED <<results, sub, resp, fn>>

\* gh.list_pr_files: the file list, or a non-success status raises
job_list_pr_files(h, ok, files) ==
    /\ Running(h, "list_pr_files")
    /\ jobs' = IF ok
               THEN [jobs EXCEPT ![h].pc = "get_pr_patch", ![h].files = files]
               ELSE Raise(h, "HTTPStatusError")
    /\ UNCHANGED <<tasks, results, sub, resp, fn>>

\* gh.get_pr_patch: the patch text, or a non-success status raises (the token
\* argument is not read again after the two fetches)
job_get_pr_patch(h, ok) ==
    /\ Running(h, "get_pr_patch")
    /\ jobs' = IF ok
               THEN [jobs EXCEPT ![h].pc = "static_checks", ![h].token = "None"]
               ELSE Raise(h, "HTTPStatusError")
    /\ UNCHANGED <<tasks, results, sub, resp, fn>>

\* the per-file static checks
job_static_checks(h) ==
    /\ Running(h, "static_checks")
    /\ jobs' = IF StaticChecksRaise(Job(h).files)
               THEN Raise(h, "UnboundLocalError")
               ELSE [jobs EXCEPT ![h].pc = "run_agent_review", ![h].files = <<>>]
    /\ UNCHANGED <<tasks, results, sub, resp, fn>>

\* one model invocation of run_agent_review
job_run_agent_review(h, r) ==
    /\ Running(h, "run_agent_review")
    /\ LET a == run_agent_review_attempt(Job(h).agent, r)
       IN  jobs' = [jobs EXCEPT ![h].agent = IF a.returned THEN Returned(a) ELSE a,
                                ![h].pc = IF a.returned THEN "persist" ELSE @]
    /\ UNCHANGED <<tasks, results, sub, resp, fn>>

\* (mutant) the task is marked completed and committed without the result row
job_persist_status_only(h, db_ok) ==
    /\ Running(h, "persist")
    /\ LET payload == Job(h).agent.ret
       IN  IF ~ModelValidates(payload)
           THEN /\ jobs' = [Raise(h, "ValidationError")
                                EXCEPT ![h].agent = Returned(Job(h).agent)]
                /\ UNCHANGED <<tasks, results>>
           ELSE IF db_ok
           THEN /\ results' = results
                /\ tasks' = [tasks EXCEPT ![Job(h).task_id].status = "completed",
                                          ![Job(h).task_id].completed_at = TRUE]
                /\ jobs' = [jobs EXCEPT ![h].pc = "done", ![h].agent.ret = NoPayload]
           ELSE /\ jobs' = [Raise(h, "OperationalError: commit (completed)")
                                EXCEPT ![h].agent = Returned(Job(h).agent)]
                /\ UNCHANGED <<tasks, results>>
    /\ UNCHANGED <<sub, resp, fn>>

\* ReviewResults.model_validate / model_dump, session.merge of the result,
\* status completed, commit; then the job returns
job_persist(h, db_ok) ==
    /\ Running(h, "persist")
    /\ LET payload == Job(h).agent.ret
       IN  IF ~ModelValidates(payload)
           THEN /\ jobs' = [Raise(h, "ValidationError")
                                EXCEPT ![h].agent = Returned(Job(h).agent)]
                /\ UNCHANGED <<tasks, results>>
           ELSE IF db_ok
           THEN /\ results' = [results EXCEPT ![Job(h).task_id] = model_dump(payload)]
                /\ tasks' = [tasks EXCEPT ![Job(h).task_id].status = "completed",
                                          ![Job(h).task_id].completed_at = TRUE]
                /\ jobs' = [jobs EXCEPT ![h].pc = "done", ![h].agent.ret = NoPayload]
           ELSE /\ jobs' = [Raise(h, "OperationalError: commit (completed)")
                                EXCEPT ![h].agent = Returned(Job(h).agent)]
                /\ UNCHANGED <<tasks, results>>
    /\ UNCHANGED <<sub, resp, fn>>

\* (mutant) the handler stores str(e) but leaves the status as it was
job_except_keeps_status(h, db_ok) ==
    /\ Running(h, "except")
    /\ tasks' = IF Row(h) # NoRow /\ db_ok
                THEN [tasks EXCEPT ![Job(h).task_id].error = Job(h).err]
                ELSE tasks
    /\ jobs' = [jobs EXCEPT ![h].pc = "done", ![h].agent.ret = NoPayload,
                            ![h].raised = IF Row(h) # NoRow /\ ~db_ok
                                          THEN "OperationalError: commit (failed)"
                                          ELSE Job(h).err]
    /\ UNCHANGED <<results, sub, resp, fn>>

\* (mutant) the handler puts the task back to pending instead of failed
job_except_requeue(h, db_ok) ==
    /\ Running(h, "except")
    /\ tasks' = IF Row(h) # NoRow /\ db_ok
                THEN [tasks EXCEPT ![Job(h).task_id].status = "pending",
                                   ![Job(h).task_id].error = Job(h).err]
                ELSE tasks
    /\ jobs' = [jobs EXCEPT ![h].pc = "done", ![h].agent.ret = NoPayload,
                            ![h].raised = IF Row(h) # NoRow /\ ~db_ok
                                          THEN "OperationalError: commit (failed)"
                                          ELSE Job(h).err]
    /\ UNCHANGED <<results, sub, resp, fn>>

\* (mutant) the handler marks the task failed without storing str(e)
job_except_no_error(h, db_ok) ==
    /\ Running(h, "except")
    /\ tasks' = IF Row(h) # NoRow /\ db_ok
                THEN [tasks EXCEPT ![Job(h).task_id].status = "failed"]
                ELSE tasks
    /\ jobs' = [jobs EXCEPT ![h].pc = "done", ![h].agent.ret = NoPayload,
                            ![h].raised = IF Row(h) # NoRow /\ ~db_ok
                                          THEN "OperationalError: commit (failed)"
                                          ELSE Job(h).err]
    /\ UNCHANGED <<results, sub, resp, fn>>

\* except Exception: rollback, reload the row, record the failure and commit;
\* then update_state FAILURE and a bare raise. When the handler's commit faults,
\* the finally clause re-raises that fault instead of the one being handled.
job_except(h, db_ok) ==
    /\ Running(h, "except")
    /\ tasks' = IF Row(h) # NoRow /\ db_ok
                THEN [tasks EXCEPT ![Job(h).task_id].status = "failed",
                                   ![Job(h).task_id].error = Job(h).err]
                ELSE tasks
    /\ jobs' = [jobs EXCEPT ![h].pc = "done", ![h].agent.ret = NoPayload,
                            ![h].raised = IF Row(h) # NoRow /\ ~db_ok
                                          THEN "OperationalError: commit (failed)"
                                          ELSE Job(h).err]
    /\ UNCHANGED <<results, sub, resp, fn>>

\* ------------------------------------------------------------------------
\* Specifications
\* ------------------------------------------------------------------------
Next ==
    \/ \E token \in Tokens, broker_ok \in BOOLEAN : api_analyze_pr_send(token, broker_ok)
    \/ \E db_ok \in BOOLEAN : api_analyze_pr_commit(db_ok)
    \/ \E t \in TaskIds : get_status(t)
    \/ \E t \in TaskIds : get_results(t)
    \/ \E h \in Handles, db_ok \in BOOLEAN : job_start(h, db_ok)
    \/ \E h \in Handles, ok \in BOOLEAN, files \in PRFileLists : job_list_pr_files(h, ok, files)
    \/ \E h \in Handles, ok \in BOOLEAN : job_get_pr_patch(h, ok)
    \/ \E h \in Handles : job_static_checks(h)
    \/ \E h \in Handles, r \in ModelResponses : job_run_agent_review(h, r)
    \/ \E h \in Handles, db_ok \in BOOLEAN : job_persist(h, db_ok)
    \/ \E h \in Handles, db_ok \in BOOLEAN : job_except(h, db_ok)

Spec == Init /\ [][Next]_vars

\* validate_response_schema applied to the parsed object
norm_validate ==
    /\ fn.pc = "parsed"
    /\ fn' = IF ValidateRaises(fn.obj)
             THEN [fn EXCEPT !.pc = "raised"]
             ELSE [fn EXCEPT !.pc = "normalized", !.out = validate_response_schema(fn.obj)]
    /\ UNCHANGED <<tasks, results, sub, jobs, resp>>

\* the job's ReviewResults.model_validate / model_dump of the payload
norm_dump ==
    /\ fn.pc = "normalized"
    /\ fn' = IF ModelValidates(fn.out)
             THEN [fn EXCEPT !.pc = "dumped", !.doc = model_dump(fn.out)]
             ELSE [fn EXCEPT !.pc = "invalid"]
    /\ UNCHANGED <<tasks, results, sub, jobs, resp>>

\* the running system, and beside it the normalization of every bounded input
NormNext ==
    \/ fn.pc = "off" /\ Next
    \/ norm_validate
    \/ norm_dump

NormSysInit == SysInit /\ (fn = FnOff \/ NormInit)

NormSpec == NormSysInit /\ [][NormNext]_vars

\* one invocation of the model inside run_agent_review
agent_invoke ==
    /\ fn.pc = "agent"
    /\ ~fn.a.returned /\ ~fn.a.raised
    /\ fn.a.calls < Len(fn.responses)
    /\ fn' = [fn EXCEPT !.a = run_agent_review_attempt(fn.a, fn.responses[fn.a.calls + 1])]
    /\ UNCHANGED <<tasks, results, sub, jobs, resp>>

AgentSysInit == SysInit /\ AgentInit

AgentSpec == AgentSysInit /\ [][agent_invoke]_vars

\* The same system while the database and the broker do not fault, under weak
\* fairness of the Submit handler's exit and of every job's steps (a request
\* in flight finishes; a worker takes each message and runs the job to its end).
ApiStep == api_analyze_pr_commit(TRUE)

JobStep(h) ==
    \/ job_start(h, TRUE)
    \/ \E ok \in BOOLEAN, files \in PRFileLists : job_list_pr_files(h, ok, files)
    \/ \E ok \in BOOLEAN : job_get_pr_patch(h, ok)
    \/ job_static_checks(h)
    \/ \E r \in ModelResponses : job_run_agent_review(h, r)
    \/ job_persist(h, TRUE)
    \/ job_except(h, TRUE)

FairNext ==
    \/ \E token \in Tokens : api_analyze_pr_send(token, TRUE)
    \/ ApiStep
    \/ \E t \in TaskIds : get_status(t)
    \/ \E t \in TaskIds : get_results(t)
    \/ \E h \in Handles : JobStep(h)

FairSpec ==
    /\ Init
    /\ [][FairNext]_vars
    /\ WF_vars(ApiStep)
    /\ \A h \in Handles : WF_vars(JobStep(h))

\* ------------------------------------------------------------------------
\* IssueSpec: validate_response_schema applied to one file entry holding one
\* raw issue, for every combination of the sampled field values.
\* ------------------------------------------------------------------------
\* raw `type` values with the type the normalization is to give for each
TypeCases ==
    {<<JStr(<<"s","t","y","l","e">>), S_style>>, <<JStr(<<"b","u","g">>), S_bug>>,
     <<JStr(<<"p","e","r","f","o","r","m","a","n","c","e">>), S_performance>>, <<JStr(<<"b","e","s","t","_","p","r","a","c","t","i","c","e">>), S_best_practice>>,
     <<JStr(<<"s","e","c","u","r","i","t","y">>), S_security>>,
     <<JStr(<<"b","e","s","t"," ","p","r","a","c","t","i","c","e">>), S_best_practice>>, <<JStr(<<"b","e","s","t","p","r","a","c","t","i","c","e">>), S_best_practice>>,
     <<JStr(<<" ","B","e","s","t"," ","P","r","a","c","t","i","c","e"," ">>), S_best_practice>>,
     <<JStr(<<"p","e","r","f">>), S_performance>>, <<JStr(<<"P","E","R","F">>), S_performance>>,
     <<JStr(<<"s","e","c">>), S_security>>, <<JStr(<<" ","S","e","c","\n">>), S_security>>,
     <<JStr(<<"B","U","G"," ">>), S_bug>>,
     <<JStr(<<"s","t","y","l","e","|","b","u","g","|","p","e","r","f","o","r","m","a","n","c","e">>), S_style>>, <<JStr(<<"b","u","g","|">>), S_style>>,
     <<JStr(<<"t","y","p","o">>), S_style>>, <<JStr(<<>>), S_style>>,
     <<JNull, S_style>>, <<JInt(5), S_style>>, <<JAbsent, S_style>>}

RawTypes == {c[1] : c \in TypeCases}
\* raw severity values and the severity each is expected to give
SeverityCases ==
    {<<JAbsent, S_medium>>, <<JNull, S_medium>>, <<JInt(5), S_medium>>,
     <<JStr(S_low), S_low>>, <<JStr(<<"H","I","G","H">>), S_high>>, <<JStr(<<"b","l","o","c","k","e","r">>), S_medium>>,
     <<JStr(<<" ","C","r","i","t","i","c","a","l"," ">>), S_high>>, <<JStr(<<"m","i","n","o","r">>), S_low>>,
     <<JStr(<<"v","e","r","y"," ","l","o","w">>), S_low>>, <<JStr(<<"h","i","g","h","l","y"," ","m","i","n","o","r">>), S_high>>,
     <<JStr(<<"l","o","w","-","c","r","i","t","i","c","a","l">>), S_high>>, <<JStr(<<"M","E","D","I","U","M">>), S_medium>>,
     <<JStr(<<"m","e","d","i","u","m","-","l","o","w">>), S_low>>, <<JStr(<<>>), S_medium>>}
RawSeverities == {c[1] : c \in SeverityCases}

RawLines ==
    {JAbsent, JNull, JInt(3), JStr(<<"7">>), JInt(0), JInt(0 - 3), JStr(<<"-","5">>),
     JStr(<<"x">>), JStr(<<>>)}
RawDescriptions == {JAbsent, JStr(<<" ","d"," ">>), JStr(<<" ">>)}

\* the dict with the keys whose value is given
Given(d) == [key \in {k \in DOMAIN d : d[k] # JAbsent} |-> d[key]]

RawIssueDicts ==
    {JDict(Given([type |-> t, severity |-> s, line |-> l, description |-> d])) :
        t \in RawTypes, s \in RawSeverities, l \in RawLines, d \in RawDescriptions}

IssueInit ==
    fn \in {[pc |-> "issue", issue |-> i, out |-> NoPayload] : i \in RawIssueDicts}

\* the payload run_agent_review hands to validate_response_schema
OneIssuePayload(issue) ==
    [files |-> JList(<<JDict([name |-> JStr(<<"a",".","p","y">>), issues |-> JList(<<issue>>)])>>)]

issue_validate ==
    /\ fn.pc = "issue"
    /\ fn' = [fn EXCEPT !.pc = "issue_done",
                        !.out = validate_response_schema(OneIssuePayload(fn.issue))]
    /\ UNCHANGED <<tasks, results, sub, jobs, resp>>

IssueSysInit == SysInit /\ IssueInit

IssueSpec == IssueSysInit /\ [][issue_validate]_vars

\* ------------------------------------------------------------------------
\* StaticSpec: run_static_checks applied to the content the job joins from at
\* most MaxLines added lines of a patch.
\* ------------------------------------------------------------------------
Rep(c, n) == [i \in 1..n |-> c]

StaticLines ==
    {<<>>, <<"x"," ","="," ","1">>, <<"e","v","a","l","(","x",")">>, <<"y"," ","="," ","e","x","e","c"," ","(","z",")">>, <<"m","e","d","i","e","v","a","l","(","a",")">>, <<"p","r","i","n","t","(","1",")">>,
     <<"e","x","c","e","p","t",":"," ","p","a","s","s">>, <<"d","e","f"," ","f","(","a","=","[","]",")",":">>,
     Rep("x", LINE_TOO_LONG), Rep("x", LINE_TOO_LONG + 1),
     <<"e","v","a","l","(">> \o Rep("x", LINE_TOO_LONG - 4) \o <<")">>}

StaticInit ==
    fn \in {[pc |-> "content", added |-> a, out |-> NoPayload] : a \in SeqsUpTo(StaticLines, MaxLines)}

\* hints = run_static_checks(name, "\n".join(added_lines))
static_check ==
    /\ fn.pc = "content"
    /\ fn' = [fn EXCEPT !.pc = "checked", !.out = run_static_checks(content_lines(fn.added))]
    /\ UNCHANGED <<tasks, results, sub, jobs, resp>>

StaticSysInit == SysInit /\ StaticInit

StaticSpec == StaticSysInit /\ [][static_check]_vars

\* ------------------------------------------------------------------------
\* ExtractSpec: extract_json_from_response applied to model responses made of
\* a JSON text (or none) inside a wrapping.
\* ------------------------------------------------------------------------
\* JSON texts with the object each denotes: valid, valid but for one trailing
\* comma before a closing brace, or not JSON
ResponseBodies ==
    {[kind |-> "valid", text |-> <<"{","\"","a","\"",":","1","}">>, obj |-> [a |-> JInt(1)]],
     [kind |-> "valid", text |-> <<"{","\"","f","i","l","e","s","\"",":"," ","[","]",","," ","\"","n","\"",":"," ","\"","x","\"","}">>,
      obj |-> [files |-> JList(<<>>), n |-> JStr(<<"x">>)]],
     [kind |-> "valid", text |-> <<"{"," ","\"","a","\""," ",":"," ","[","1",","," ","2","]"," ","}">>, obj |-> [a |-> JList(<<JInt(1), JInt(2)>>)]],
     [kind |-> "valid", text |-> <<"{","\"","a","\"",":"," ","{","\"","b","\"",":"," ","-","2","}","}">>, obj |-> [a |-> JDict([b |-> JInt(-2)])]],
     [kind |-> "trailing_comma", text |-> <<"{","\"","a","\"",":","1",",","}">>, obj |-> [a |-> JInt(1)]],
     [kind |-> "trailing_comma", text |-> <<"{","\"","f","i","l","e","s","\"",":"," ","[","]",",","\n","}">>, obj |-> [files |-> JList(<<>>)]],
     [kind |-> "trailing_comma", text |-> <<"{","\"","a","\"",":"," ","{","\"","b","\"",":"," ","-","2","}",","," ","}">>,
      obj |-> [a |-> JDict([b |-> JInt(-2)])]],
     [kind |-> "invalid", text |-> <<"{","\"","a","\""," ","1","}">>, obj |-> [a |-> JNull]],
     [kind |-> "prose", text |-> <<"I"," ","c","a","n","n","o","t"," ","r","e","v","i","e","w"," ","t","h","i","s",".">>, obj |-> [a |-> JNull]]}

\* what the model puts around the JSON text
ResponseWrappings ==
    {[kind |-> "bare", pre |-> <<>>, post |-> <<>>],
     [kind |-> "bare", pre |-> <<" ","\n">>, post |-> <<"\n">>],
     [kind |-> "fenced", pre |-> <<"tick","tick","tick","j","s","o","n","\n">>, post |-> <<"\n","tick","tick","tick">>],
     [kind |-> "fenced", pre |-> <<"tick","tick","tick","j","s","o","n">>, post |-> <<"tick","tick","tick">>],
     [kind |-> "fenced", pre |-> <<"tick","tick","tick","j","s","o","n"," ","\n","\n">>, post |-> <<"\n","tick","tick","tick","\n">>],
     [kind |-> "commented", pre |-> <<"H","e","r","e"," ","i","s"," ","t","h","e"," ","r","e","v","i","e","w",":","\n">>, post |-> <<"\n","D","o","n","e",".">>]}

ExtractInit ==
    fn \in {[pc |-> "response", body |-> b, wrapping |-> w, out |-> NoPayload] :
                b \in ResponseBodies, w \in ResponseWrappings}

\* payload = extract_json_from_response(text)
extract ==
    /\ fn.pc = "response"
    /\ fn' = [fn EXCEPT !.pc = "extracted",
                        !.out = extract_json_from_response(
                                    fn.wrapping.pre \o fn.body.text \o fn.wrapping.post)]
    /\ UNCHANGED <<tasks, results, sub, jobs, resp>>

ExtractSysInit == SysInit /\ ExtractInit

ExtractSpec == ExtractSysInit /\ [][extract]_vars

\* ------------------------------------------------------------------------
\* UrlSpec: _parse_repo_url applied to https URLs whose path is made of at
\* most MaxSegments segments (an empty segment stands for a doubled slash),
\* with or without a trailing slash, a query or a fragment.
\* ------------------------------------------------------------------------
PathSegments == {<<>>, <<"a","c","m","e">>, <<"w","i","d","g","e","t","s">>}
UrlEndings == {<<>>, <<"/">>, <<"?","t","a","b","=","f","i","l","e","s">>, <<"#","r","e","a","d","m","e">>}

\* "/" before each segment
RECURSIVE PathOf(_)
PathOf(segs) == IF segs = <<>> THEN <<>> ELSE <<"/">> \o Head(segs) \o PathOf(Tail(segs))

UrlInit ==
    fn \in {[pc |-> "url", segs |-> s, ending |-> e, out |-> NoPayload] :
                s \in SeqsUpTo(PathSegments, MaxSegments), e \in UrlEndings}

\* owner, repo = self._parse_repo_url(repo_url)
parse_repo_url ==
    /\ fn.pc = "url"
    /\ fn' = [fn EXCEPT !.pc = "url_parsed",
                        !.out = _parse_repo_url(<<"h","t","t","p","s",":","/","/","g","i","t","h","u","b",".","c","o","m">> \o PathOf(fn.segs)
                                                \o fn.ending)]
    /\ UNCHANGED <<tasks, results, sub, jobs, resp>>

UrlSysInit == SysInit /\ UrlInit

UrlSpec == UrlSysInit /\ [][parse_repo_url]_vars

\* ------------------------------------------------------------------------
\* SessionSpec: the life of the database sessions.  One request runs its
\* handler inside session_scope (app/utils/db.py) while one analysis job
\* runs with its own session (app/tasks/task.py); each statement that
\* touches the session is one step.  A commit may raise; get, rollback and
\* close do not.
\* ------------------------------------------------------------------------
NoException == "none"

\* what the body of the with-block of each handler can do
BodyOutcomes(handler) ==
    CASE handler = "analyze_pr" -> {"return", "Exception"}
      [] handler = "get_status" -> {"return", "HTTPException"}
      [] handler = "get_results" -> {"return", "HTTPException"}

NewSession(pc) ==
    [pc |-> pc, opened |-> 0, commits |-> 0, rollbacks |-> 0, closes |-> 0,
     body |-> NoException, caught |-> NoException, raised |-> NoException]

SessionInit ==
    \E h \in {"analyze_pr", "get_status", "get_results"} :
        fn = [pc |-> "sessions", handler |-> h, scope |-> NewSession("call"),
              task |-> NewSession("call")]

SessionStep(scope, task) ==
    /\ fn.pc = "sessions"
    /\ fn' = [fn EXCEPT !.scope = scope, !.task = task]
    /\ UNCHANGED <<tasks, results, sub, jobs, resp>>

\* session = SessionLocal(); yield session
session_scope_enter ==
    /\ fn.pc = "sessions" /\ fn.scope.pc = "call"
    /\ SessionStep([fn.scope EXCEPT !.pc = "body", !.opened = @ + 1], fn.task)

\* the body of the with-block returns or raises
session_scope_body ==
    /\ fn.pc = "sessions" /\ fn.scope.pc = "body"
    /\ \E o \in BodyOutcomes(fn.handler) :
          SessionStep([fn.scope EXCEPT !.body = o,
                                       !.pc = IF o = "return" THEN "commit" ELSE "except",
                                       !.caught = IF o = "return" THEN NoException ELSE o],
                      fn.task)

\* session.commit()
session_scope_commit ==
    /\ fn.pc = "sessions" /\ fn.scope.pc = "commit"
    /\ \E ok \in BOOLEAN :
          SessionStep([fn.scope EXCEPT !.commits = @ + 1,
                                       !.pc = IF ok THEN "finally" ELSE "except",
                                       !.caught = IF ok THEN NoException ELSE "Exception"],
                      fn.task)

\* except Exception: session.rollback()
session_scope_rollback ==
    /\ fn.pc = "sessions" /\ fn.scope.pc = "except"
    /\ SessionStep([fn.scope EXCEPT !.rollbacks = @ + 1, !.pc = "raise"], fn.task)

\* raise
session_scope_raise ==
    /\ fn.pc = "sessions" /\ fn.scope.pc = "raise"
    /\ SessionStep([fn.scope EXCEPT !.raised = fn.scope.caught, !.pc = "finally"], fn.task)

\* (mutant) the session is closed on the normal path only
session_scope_close_on_success ==
    /\ fn.pc = "sessions" /\ fn.scope.pc = "finally"
    /\ SessionStep([fn.scope EXCEPT
                       !.closes = IF fn.scope.raised = NoException THEN @ + 1 ELSE @,
                       !.pc = "exit"], fn.task)

\* finally: session.close()
session_scope_close ==
    /\ fn.pc = "sessions" /\ fn.scope.pc = "finally"
    /\ SessionStep([fn.scope EXCEPT !.closes = @ + 1, !.pc = "exit"], fn.task)

\* session: Session = SessionLocal()
task_session_open ==
    /\ fn.pc = "sessions" /\ fn.task.pc = "call"
    /\ SessionStep(fn.scope, [fn.task EXCEPT !.pc = "get", !.opened = @ + 1])

\* task = session.get(...); if not task: return
task_session_get ==
    /\ fn.pc = "sessions" /\ fn.task.pc = "get"
    /\ \E found \in BOOLEAN :
          SessionStep(fn.scope, [fn.task EXCEPT !.pc = IF found THEN "processing" ELSE "finally",
                                                !.body = IF found THEN @ ELSE "return"])

\* task.status = TaskStatus.processing; session.commit()
task_session_processing ==
    /\ fn.pc = "sessions" /\ fn.task.pc = "processing"
    /\ \E ok \in BOOLEAN :
          SessionStep(fn.scope, [fn.task EXCEPT !.commits = @ + 1,
                                                !.pc = IF ok THEN "review" ELSE "except",
                                                !.caught = IF ok THEN @ ELSE "Exception"])

\* the fetches, the static checks, the agent review and session.merge
task_session_review ==
    /\ fn.pc = "sessions" /\ fn.task.pc = "review"
    /\ \E ok \in BOOLEAN :
          SessionStep(fn.scope, [fn.task EXCEPT !.pc = IF ok THEN "completed" ELSE "except",
                                                !.caught = IF ok THEN @ ELSE "Exception"])

\* task.status = TaskStatus.completed; session.commit(); return
task_session_completed ==
    /\ fn.pc = "sessions" /\ fn.task.pc = "completed"
    /\ \E ok \in BOOLEAN :
          SessionStep(fn.scope, [fn.task EXCEPT !.commits = @ + 1,
                                                !.pc = IF ok THEN "finally" ELSE "except",
                                                !.body = IF ok THEN "return" ELSE @,
                                                !.caught = IF ok THEN @ ELSE "Exception"])

\* except Exception as e: session.rollback()
task_session_rollback ==
    /\ fn.pc = "sessions" /\ fn.task.pc = "except"
    /\ SessionStep(fn.scope, [fn.task EXCEPT !.rollbacks = @ + 1, !.pc = "mark_failed"])

\* task = session.get(...); if task: task.status = failed; session.commit()
\* and the raise of the inner finally, whether or not the commit raised
task_session_mark_failed ==
    /\ fn.pc = "sessions" /\ fn.task.pc = "mark_failed"
    /\ \E found \in BOOLEAN :
          SessionStep(fn.scope, [fn.task EXCEPT !.commits = IF found THEN @ + 1 ELSE @,
                                                !.raised = "Exception",
                                                !.pc = "finally"])

\* finally: session.close()
task_session_close ==
    /\ fn.pc = "sessions" /\ fn.task.pc = "finally"
    /\ SessionStep(fn.scope, [fn.task EXCEPT !.closes = @ + 1, !.pc = "exit"])

SessionSysInit == SysInit /\ SessionInit

SessionNext ==
    \/ session_scope_enter \/ session_scope_body \/ session_scope_commit
    \/ session_scope_rollback \/ session_scope_raise \/ session_scope_close
    \/ task_session_open \/ task_session_get \/ task_session_processing
    \/ task_session_review \/ task_session_completed \/ task_session_rollback
    \/ task_session_mark_failed \/ task_session_close

SessionSpec == SessionSysInit /\ [][SessionNext]_vars

\* ------------------------------------------------------------------------
\* PageSpec: GitHubClient.list_pr_files against a pull request of n changed
\* files, numbered 1..n in the order GitHub lists them.  Each step is one
\* turn of the while loop; any request may be answered with a non-success
\* status.
\* ------------------------------------------------------------------------
\* params={"per_page": 100, ...}; if len(chunk) < 100
PER_PAGE == 100

\* the answer of GitHub to per_page = PER_PAGE, page = p
PageOf(n, p) ==
    LET first == (p - 1) * PER_PAGE + 1
        last == IF p * PER_PAGE < n THEN p * PER_PAGE ELSE n
    IN  [i \in 1..(IF last >= first THEN last - first + 1 ELSE 0) |-> first + i - 1]

PageInit ==
    \E n \in 0..MaxChanged :
        fn = [pc |-> "list", n |-> n, page |-> 1, files |-> <<>>, asked |-> <<>>,
              raised |-> FALSE, out |-> <<>>]

\* (mutant) the loop also stops after a full page
list_pr_files_page_le ==
    /\ fn.pc = "list"
    /\ \E ok \in BOOLEAN :
          LET chunk == PageOf(fn.n, fn.page)
          IN  fn' = IF ~ok
                    THEN [fn EXCEPT !.asked = Append(@, fn.page), !.pc = "exit",
                                    !.raised = TRUE]
                    ELSE IF Len(chunk) <= PER_PAGE
                    THEN [fn EXCEPT !.asked = Append(@, fn.page), !.pc = "exit",
                                    !.files = @ \o chunk, !.out = fn.files \o chunk]
                    ELSE [fn EXCEPT !.asked = Append(@, fn.page),
                                    !.files = @ \o chunk, !.page = @ + 1]
    /\ UNCHANGED <<tasks, results, sub, jobs, resp>>

\* r = await client.get(...); r.raise_for_status(); files.extend(r.json());
\* if len(chunk) < 100: break, return files; else page += 1
list_pr_files_page ==
    /\ fn.pc = "list"
    /\ \E ok \in BOOLEAN :
          LET chunk == PageOf(fn.n, fn.page)
          IN  fn' = IF ~ok
                    THEN [fn EXCEPT !.asked = Append(@, fn.page), !.pc = "exit",
                                    !.raised = TRUE]
                    ELSE IF Len(chunk) < PER_PAGE
                    THEN [fn EXCEPT !.asked = Append(@, fn.page), !.pc = "exit",
                                    !.files = @ \o chunk, !.out = fn.files \o chunk]
                    ELSE [fn EXCEPT !.asked = Append(@, fn.page),
                                    !.files = @ \o chunk, !.page = @ + 1]
    /\ UNCHANGED <<tasks, results, sub, jobs, resp>>

PageSysInit == SysInit /\ PageInit

PageSpec == PageSysInit /\ [][list_pr_files_page]_vars

\* ------------------------------------------------------------------------
\* Properties
\* ------------------------------------------------------------------------
Committed(t) == tasks[t] # NoRow
Ended(h) == jobs[h] # NoJob /\ jobs[h].pc = "done"

C2_EventuallyTerminal ==
    \A t \in TaskIds :
        Committed(t) ~> (Committed(t) /\ tasks[t].status \in {"completed", "failed"})

\* C3: whenever a worker starts the job for a task id, the ReviewTask row
\* created by Submit is already visible to the worker's lookup.
C3_RowVisibleAtStart ==
    [][\A h \in Handles :
          (Running(h, "queued") /\ jobs'[h].pc # "queued") => Committed(jobs[h].task_id)]_vars


\* C4: every successful Submit adds exactly one new ReviewTask row, pending and
\* with the job handle recorded, has enqueued exactly one job whose arguments
\* are that row's id and the caller's token, and responds with that id and
\* status "pending"; no other row is created or changed.
SubmitSucceeds == sub.pc = "sent" /\ sub'.pc = "idle" /\ resp'.code = 200

C4_SubmitEffect ==
    [][SubmitSucceeds =>
         \E t \in TaskIds :
            /\ tasks[t] = NoRow
            /\ tasks'[t] # NoRow
            /\ tasks'[t] = [status |-> "pending", error |-> "None", started_at |-> FALSE,
                            completed_at |-> FALSE,
                            celery_task_id |-> tasks'[t].celery_task_id]
            /\ tasks'[t].celery_task_id # NoHandle
            /\ \A u \in TaskIds \ {t} : tasks'[u] = tasks[u]
            /\ results' = results
            /\ {h \in Handles : jobs'[h] # NoJob /\ jobs'[h].task_id = t}
                  = {tasks'[t].celery_task_id}
            /\ jobs'[tasks'[t].celery_task_id].token = sub.token
            /\ resp'.task_id = t
            /\ resp'.status = "pending"]_vars

\* C4 witness: a Submit has succeeded for a second task while the first task's
\* row stands completed with its result
C4_Witness ==
    /\ resp.op = "analyze_pr" /\ resp.code = 200 /\ resp.task_id = 2
    /\ Committed(2) /\ tasks[2].status = "pending" /\ jobs[tasks[2].celery_task_id].token = "ghp_x"
    /\ Committed(1) /\ tasks[1].status = "completed" /\ results[1] # NoRow

\* C5: a Results request answers 404 exactly when the task row is unknown or
\* the task is completed without a ReviewResult row; otherwise 200, with results
\* null when the status is pending, processing or failed and the stored
\* (non-null) document when it is completed.
C5_ResultsAnswer ==
    \A t \in TaskIds :
        LET r == ResultsResponse(t)
        IN  /\ r.code = 404 <=>
                 (tasks[t] = NoRow \/ (tasks[t].status = "completed" /\ results[t] = NoRow))
            /\ r.code # 404 =>
                 /\ r.code = 200
                 /\ r.task_id = t
                 /\ r.status = tasks[t].status
                 /\ tasks[t].status \in {"pending", "processing", "failed"} => r.results = JNull
                 /\ tasks[t].status = "completed" =>
                       r.results = results[t] /\ r.results # JNull /\ r.results # NoRow

\* C5 witness: the four answers occur together: a completed task with its
\* document, a failed task with null results, and an unknown id
C5_Witness ==
    \E t, u \in TaskIds :
        /\ Committed(t) /\ tasks[t].status = "completed"
        /\ ResultsResponse(t).code = 200 /\ ResultsResponse(t).results = results[t]
        /\ Len(results[t].files) > 0
        /\ \/ /\ Committed(u) /\ tasks[u].status = "failed"
              /\ ResultsResponse(u).code = 200 /\ ResultsResponse(u).results = JNull
           \/ /\ ~Committed(u) /\ ResultsResponse(u).code = 404

\* a job whose try body raised (after the row was loaded), now ended
EndedByFault(h) == Ended(h) /\ jobs[h].err # "None"

TookFallback(h) == jobs[h] # NoJob /\ jobs[h].agent.returned /\ ~jobs[h].agent.ok
CommitFaulted(h) == jobs[h].err = "OperationalError: commit (completed)"

\* C7: when every model attempt fails while the GitHub fetches and the database
\* writes succeed, the job ends with the task completed, never failed: the
\* output of run_agent_review passes the ReviewResults validation in the job, and
\* a ReviewResult row with empty files and an all-zero summary is stored.
C7_FallbackCompletes ==
    \A h \in Handles :
        /\ Running(h, "persist") => ModelValidates(jobs[h].agent.ret)
        /\ (TookFallback(h) /\ jobs[h].pc \in {"except", "done"} /\ ~CommitFaulted(h)) =>
              /\ jobs[h].pc = "done" /\ jobs[h].err = "None" /\ jobs[h].raised = "None"
              /\ Row(h).status = "completed"
              /\ results[jobs[h].task_id].files = <<>>
              /\ results[jobs[h].task_id].summary = ZeroSummary

\* C7 witness: a job that took the fallback has ended with its task completed
C7_Witness ==
    \E h \in Handles :
        /\ TookFallback(h) /\ Ended(h)
        /\ Row(h).status = "completed"
        /\ results[jobs[h].task_id] # NoRow

\* C8: when the job completes through the fallback path, the persisted results
\* document, which the Results endpoint returns, contains the `error` string.
C8_FallbackErrorPersisted ==
    \A h \in Handles :
        (TookFallback(h) /\ Ended(h) /\ Row(h).status = "completed") =>
            /\ "error" \in DOMAIN results[jobs[h].task_id]
            /\ "error" \in DOMAIN ResultsResponse(jobs[h].task_id).results

\* C9: run_agent_review with the default budget invokes the model at most 3
\* times; it returns the normalized result of the first attempt that succeeds
\* and invokes no more; if all 3 attempts fail it returns the fallback (empty
\* files, all-zero summary, non-empty error); it never raises.
C9_RetryLoop ==
    fn.pc = "agent" =>
        LET a == fn.a
            succeeding == {i \in 1..3 : AttemptSucceeds(fn.responses[i])}
        IN  /\ a.calls <= 3
            /\ ~a.raised
            /\ ~a.returned => \A i \in 1..a.calls : i \notin succeeding
            /\ a.returned =>
                 IF succeeding # {}
                 THEN /\ a.calls = Min(succeeding)
                      /\ a.ret = validate_response_schema(fn.responses[Min(succeeding)].obj)
                 ELSE /\ a.calls = 3
                      /\ a.ret.files = <<>>
                      /\ a.ret.summary = [total_files |-> 0, total_issues |-> 0,
                                          critical_issues |-> 0]
                      /\ "error" \in DOMAIN a.ret /\ a.ret.error # ""

\* C9 witness: the call returned the fallback after three failing invocations
\* although a fourth response would have succeeded
C9_Witness ==
    /\ fn.pc = "agent" /\ fn.a.returned /\ fn.a.calls = 3
    /\ \A i \in 1..3 : ~AttemptSucceeds(fn.responses[i])
    /\ AttemptSucceeds(fn.responses[4])
    /\ "error" \in DOMAIN fn.a.ret

\* the summary of a document agrees with its files
IssuePositions(files) ==
    UNION {{<<i, j>> : j \in 1..Len(files[i].issues)} : i \in 1..Len(files)}

SummaryMatches(doc) ==
    /\ doc.summary.total_files = Len(doc.files)
    /\ doc.summary.total_issues = Cardinality(IssuePositions(doc.files))
    /\ doc.summary.critical_issues =
          Cardinality({p \in IssuePositions(doc.files) :
                          doc.files[p[1]].issues[p[2]].severity = S_high})

\* C10: for every parsed model object, whatever summary it carries, the output
\* of validate_response_schema has total_files = number of files, total_issues =
\* number of issues over all files and critical_issues = number of issues of
\* severity high; the same holds of every results_json document persisted.
C10_SummaryRecomputed ==
    /\ fn.pc \in {"normalized", "dumped"} => SummaryMatches(fn.out)
    /\ fn.pc = "dumped" => SummaryMatches(fn.doc)
    /\ \A t \in TaskIds : results[t] # NoRow => SummaryMatches(results[t])
    /\ \A h \in Handles : Running(h, "persist") => SummaryMatches(jobs[h].agent.ret)

\* C10 witness: an object claiming 7 files, 9 issues and 5 critical ones was
\* normalized to 2 files holding 3 issues, 2 of them high, one issue dropped
C10_Witness ==
    /\ fn.pc = "dumped"
    /\ "summary" \in DOMAIN fn.obj /\ fn.obj.summary = WrongSummary
    /\ Len(fn.obj.files.items) = 2
    /\ fn.doc.summary = [total_files |-> 2, total_issues |-> 3, critical_issues |-> 2]
    /\ Len(fn.doc.files[1].issues) = 1

\* the issues validate_response_schema kept of the one raw issue
Retained == fn.out.files[1].issues

\* C11: every retained issue's type is one of style, bug, performance,
\* best_practice, security: lower-cased and trimmed, "best practice" and
\* "bestpractice" give best_practice, "perf" performance, "sec" security, a
\* canonical value is kept, and any other value (a pipe inside it included)
\* gives style.
C11_TypeNormalized ==
    (fn.pc = "issue_done" /\ Retained # <<>>) =>
        /\ Retained[1].type \in {S_style, S_bug, S_performance, S_best_practice, S_security}
        /\ \A c \in TypeCases :
              Get(fn.issue.d, "type", JAbsent) = c[1] => Retained[1].type = c[2]

\* C11 witness: the type "PERF" of a retained issue came out as performance
C11_Witness ==
    /\ fn.pc = "issue_done" /\ Retained # <<>>
    /\ Get(fn.issue.d, "type", JAbsent) = JStr(<<"P","E","R","F">>)
    /\ Retained[1].type = S_performance

\* the file entries of the parsed object, those that are objects with a name,
\* and the place each of them takes among these
InFiles == Items(Get(fn.obj, "files", JList(<<>>)))
Named == {i \in 1..Len(InFiles) : InFiles[i].k = "dict" /\ "name" \in DOMAIN InFiles[i].d}
Place(i) == Cardinality({j \in Named : j <= i})

\* the issues of entry i that are objects whose description holds a character
\* other than white space
Described(i) ==
    LET issues == Items(Get(InFiles[i].d, "issues", JList(<<>>)))
    IN  {j \in 1..Len(issues) :
            /\ issues[j].k = "dict"
            /\ "description" \in DOMAIN issues[j].d
            /\ \E k \in 1..Len(issues[j].d.description.s) :
                  ~IsSpace(issues[j].d.description.s[k])}

\* C12: in the output every retained issue has a non-empty description; an issue
\* whose description is empty or absent after trimming is removed; every input
\* entry that is an object with a name is kept, in input order, with an empty
\* issues list when none of its issues survive.
C12_EmptyDescriptionsDropped ==
    fn.pc \in {"normalized", "dumped"} =>
        /\ Len(fn.out.files) = Cardinality(Named)
        /\ \A i \in Named :
              /\ fn.out.files[Place(i)].name = InFiles[i].d.name.s
              /\ Len(fn.out.files[Place(i)].issues) = Cardinality(Described(i))
        /\ \A f \in 1..Len(fn.out.files) : \A j \in 1..Len(fn.out.files[f].issues) :
              fn.out.files[f].issues[j].description # <<>>

\* C12 witness: of the entries (no name, "c" with no issue surviving, "b" with
\* one of two surviving) the output keeps "c" with no issues, then "b" with one
C12_Witness ==
    /\ fn.pc = "normalized" /\ Len(InFiles) = 2
    /\ Named = {1, 2}
    /\ InFiles[1].d.name.s = <<"c">> /\ InFiles[2].d.name.s = <<"b">>
    /\ Len(fn.out.files) = 2
    /\ fn.out.files[1] = [name |-> <<"c">>, issues |-> <<>>]
    /\ Len(fn.out.files[2].issues) = 1

\* the lines of the content handed to run_static_checks
ContentLines == content_lines(fn.added)

\* C13: for any content in which some line contains `eval(` or `exec(`,
\* whichever line that is, run_static_checks returns a list that includes a
\* finding with type security and severity high.
C13_EvalExecFlagged ==
    (/\ fn.pc = "checked"
     /\ \E i \in 1..Len(ContentLines) :
           \/ Contains(ContentLines[i], <<"e","v","a","l","(">>)
           \/ Contains(ContentLines[i], <<"e","x","e","c","(">>))
    => /\ ~fn.out.raised
       /\ \E k \in 1..Len(fn.out.issues) :
             fn.out.issues[k].type = S_security /\ fn.out.issues[k].severity = S_high

\* the lines longer than 120 characters, and the place of each among them
LongLines == {i \in 1..Len(ContentLines) : Len(ContentLines[i]) > 120}
LongPlace(i) == Cardinality({j \in LongLines : j <= i})

\* C14: run_static_checks emits exactly one style finding of severity low, with
\* message "Line too long: N chars" and the line's 1-based index, for each line
\* whose length N exceeds 120, and none for a line of length 120 or less; these
\* findings precede all pattern-based findings in the returned list.
C14_LineTooLong ==
    (fn.pc = "checked" /\ ~fn.out.raised) =>
        /\ Len(fn.out.issues) >= Cardinality(LongLines)
        /\ \A i \in LongLines :
              LET f == fn.out.issues[LongPlace(i)]
              IN  /\ f.type = S_style /\ f.severity = S_low /\ f.line = i
                  /\ f.description =
                        IF Len(ContentLines[i]) = 121
                        THEN <<"L","i","n","e"," ","t","o","o"," ","l","o","n","g",":"," ","1","2","1"," ","c","h","a","r","s">>
                        ELSE <<"L","i","n","e"," ","t","o","o"," ","l","o","n","g",":"," ","1","2","2"," ","c","h","a","r","s">>
        /\ \A k \in (Cardinality(LongLines) + 1)..Len(fn.out.issues) :
              fn.out.issues[k].type # S_style

\* C14 witness: of a line of 120 characters and a line of 122 characters that
\* calls eval, only the second is reported too long, ahead of the eval finding
C14_Witness ==
    /\ fn.pc = "checked" /\ ~fn.out.raised
    /\ Len(ContentLines) = 2
    /\ Len(ContentLines[1]) = 120 /\ Len(ContentLines[2]) = 122
    /\ Len(fn.out.issues) = 2
    /\ fn.out.issues[1].type = S_style /\ fn.out.issues[1].line = 2
    /\ fn.out.issues[2].type = S_security

\* C15: in every reachable state a ReviewTask's error is set exactly when its
\* status is failed: null while pending, processing or completed, set whenever
\* the task is failed.
C15_ErrorIffFailed ==
    \A t \in TaskIds :
        Committed(t) => (tasks[t].status = "failed" <=> tasks[t].error # "None")

\* C15 witness: a failed task holding its fault's text beside a completed task
\* whose error is null
C15_Witness ==
    \E t, u \in TaskIds :
        /\ Committed(t) /\ tasks[t].status = "failed" /\ tasks[t].error = "UnboundLocalError"
        /\ Committed(u) /\ tasks[u].status = "completed" /\ tasks[u].error = "None"

\* C16: extract_json_from_response returns the parsed object for a response
\* that is valid JSON wrapped in json fences, and for a response that is valid
\* JSON except for one trailing comma before a closing brace.
C16_ExtractJson ==
    (/\ fn.pc = "extracted"
     /\ \/ fn.body.kind = "valid" /\ fn.wrapping.kind = "fenced"
        \/ fn.body.kind = "trailing_comma" /\ fn.wrapping.kind = "bare")
    => (~fn.out.raised /\ fn.out.v = JDict(fn.body.obj))

\* the segments of the URL's path once its leading and trailing slashes are
\* stripped: those from the first to the last non-empty one
PathCore ==
    LET full == {i \in 1..Len(fn.segs) : fn.segs[i] # <<>>}
    IN  IF full = {} THEN <<>>
        ELSE SubSeq(fn.segs, Min(full), CHOOSE i \in full : \A j \in full : j <= i)

\* the segments joined by "/"
RECURSIVE Joined(_)
Joined(segs) ==
    IF Len(segs) <= 1 THEN (IF segs = <<>> THEN <<>> ELSE segs[1])
    ELSE segs[1] \o <<"/">> \o Joined(Tail(segs))

\* C17: _parse_repo_url returns owner = the first path segment and repo = the
\* remainder of the path for every URL whose path, stripped of leading and
\* trailing slashes, has at least two segments, and signals an error for every
\* URL with fewer than two path segments.
C17_ParseRepoUrl ==
    fn.pc = "url_parsed" =>
        IF Len(PathCore) >= 2
        THEN /\ ~fn.out.raised
             /\ fn.out.owner = PathCore[1]
             /\ fn.out.repo = Joined(Tail(PathCore))
        ELSE fn.out.raised

\* C17 witness: https://github.com/acme/widgets gave (acme, widgets)
C17_Witness ==
    /\ fn.pc = "url_parsed" /\ fn.ending = <<>>
    /\ fn.segs = <<<<"a","c","m","e">>, <<"w","i","d","g","e","t","s">>>>
    /\ fn.out = [raised |-> FALSE, owner |-> <<"a","c","m","e">>,
                 repo |-> <<"w","i","d","g","e","t","s">>]

\* a session is never closed before it is opened, never opened or closed
\* twice, and is closed once its owner has exited
ClosedOnce(s) ==
    /\ s.closes <= s.opened /\ s.opened <= 1
    /\ s.pc = "exit" => s.opened = 1 /\ s.closes = 1
    /\ s.closes = 1 => s.pc = "exit"

\* C18: every session that is opened, by session_scope or by the analysis
\* job, is closed exactly once on every exit path; in session_scope commit is
\* called exactly when the body exits normally, and when the body or the
\* commit raises the session is rolled back and that fault is re-raised, a
\* handler's 404 included.
C18_SessionsClosedOnce ==
    fn.pc = "sessions" =>
        /\ ClosedOnce(fn.scope) /\ ClosedOnce(fn.task)
        /\ fn.scope.pc = "exit" =>
              /\ fn.scope.commits = (IF fn.scope.body = "return" THEN 1 ELSE 0)
              /\ fn.scope.raised = fn.scope.caught
              /\ fn.scope.rollbacks = (IF fn.scope.caught = NoException THEN 0 ELSE 1)
              /\ fn.scope.body # "return" => fn.scope.caught = fn.scope.body

\* C18 witness: a handler's 404 was rolled back, re-raised and its session
\* closed, and the job whose last commit raised has closed its session
C18_Witness ==
    /\ fn.pc = "sessions"
    /\ fn.scope.pc = "exit" /\ fn.scope.raised = "HTTPException"
    /\ fn.scope.rollbacks = 1 /\ fn.scope.commits = 0 /\ fn.scope.closes = 1
    /\ fn.task.pc = "exit" /\ fn.task.raised = "Exception" /\ fn.task.commits = 3
    /\ fn.task.closes = 1

\* the number of requests a pull request of n files takes
RequestsFor(n) == (n \div PER_PAGE) + 1

\* C19: list_pr_files requests pages 1, 2, ... in order, each once, and never
\* more than floor(n/100)+1 of them; while it has not returned fewer than that
\* were made, so the loop ends; when it returns it has made exactly that many
\* requests and returns the n entries once each in page order; when a request
\* is answered with a non-success status it raises at that request and returns
\* no list.
C19_Pagination ==
    fn.pc \in {"list", "exit"} =>
        /\ fn.asked = [i \in 1..Len(fn.asked) |-> i]
        /\ Len(fn.asked) <= RequestsFor(fn.n)
        /\ fn.pc = "list" => Len(fn.asked) < RequestsFor(fn.n) /\ fn.page = Len(fn.asked) + 1
        /\ fn.pc = "exit" /\ ~fn.raised =>
              /\ Len(fn.asked) = RequestsFor(fn.n)
              /\ fn.out = [i \in 1..fn.n |-> i]
        /\ fn.pc = "exit" /\ fn.raised => fn.out = <<>> /\ Len(fn.asked) >= 1

\* C19 witness: 200 files came back after three requests, the last one for an
\* empty page
C19_Witness ==
    /\ fn.pc = "exit" /\ ~fn.raised /\ fn.n = 2 * PER_PAGE
    /\ fn.asked = <<1, 2, 3>> /\ Len(fn.out) = 2 * PER_PAGE

\* the job of task t takes a step
JobMoves(t) ==
    \E h \in Handles : /\ jobs[h] # NoJob /\ jobs[h].task_id = t
                       /\ jobs'[h].pc # jobs[h].pc

\* C20: a ReviewResult row changes only in a step of the analysis job of its
\* task, and so does an existing ReviewTask row; the only other change of a
\* row is the commit of a Submit, which creates its own row and touches no
\* other; hence no Status or Results request, whatever it answers, changes a
\* row.
C20_Frame ==
    [][\A t \in TaskIds :
          /\ results'[t] # results[t] => JobMoves(t)
          /\ tasks[t] # NoRow /\ tasks'[t] # tasks[t] => JobMoves(t) /\ tasks'[t] # NoRow
          /\ tasks[t] = NoRow /\ tasks'[t] # NoRow =>
                /\ sub.pc = "sent" /\ sub.id = t /\ sub'.pc = "idle"
                /\ tasks'[t] = ReviewTask(sub.handle)
                /\ results' = results
                /\ \A u \in TaskIds \ {t} : tasks'[u] = tasks[u]]_vars

\* C20 witness: a Submit has just created the pending row of task 2 beside
\* the completed task 1 and its result row, both as the job left them
C20_Witness ==
    /\ tasks[1] # NoRow /\ tasks[1].status = "completed" /\ results[1] # NoRow
    /\ tasks[2] # NoRow /\ tasks[2].status = "pending" /\ results[2] = NoRow
    /\ resp.op = "analyze_pr" /\ resp.code = 200 /\ resp.task_id = 2
    /\ StatusResponse(1).code = 200 /\ ResultsResponse(1).results = results[1]

\* C21: every retained issue's line is either null or a positive integer.
C21_LinePositive ==
    (fn.pc = "issue_done" /\ Retained # <<>>) =>
        \/ Retained[1].line = JNull
        \/ Retained[1].line.k = "int" /\ Retained[1].line.n > 0

\* C22: every retained issue's severity is one of low, medium, high: after
\* lower-casing and trimming, a value containing "critical" or "high" gives
\* high, a value containing "minor" or "low" and neither of those gives low,
\* and any other value or an absent severity gives medium.
C22_SeverityNormalized ==
    (fn.pc = "issue_done" /\ Retained # <<>>) =>
        /\ Retained[1].severity \in {S_low, S_medium, S_high}
        /\ \A c \in SeverityCases :
              Get(fn.issue.d, "severity", JAbsent) = c[1] => Retained[1].severity = c[2]

\* C22 witness: the severity "highly minor" of a retained issue came out high
C22_Witness ==
    /\ fn.pc = "issue_done" /\ Retained # <<>>
    /\ Get(fn.issue.d, "severity", JAbsent) = JStr(<<"h","i","g","h","l","y"," ","m","i","n","o","r">>)
    /\ Retained[1].severity = S_high

\* C23: each ReviewTask whose status is completed has a ReviewResult row keyed
\* by its id and has started_at and completed_at set, so a Results request for
\* a completed task answers 200 with that row.
C23_CompletedHasResult ==
    \A t \in TaskIds :
        (tasks[t] # NoRow /\ tasks[t].status = "completed") =>
            /\ results[t] # NoRow
            /\ tasks[t].started_at /\ tasks[t].completed_at
            /\ ResultsResponse(t).code = 200 /\ ResultsResponse(t).results = results[t]

\* C23 witness: task 1 is completed with its result row while the job of
\* task 2 is still running
C23_Witness ==
    /\ tasks[1] # NoRow /\ tasks[1].status = "completed" /\ results[1] # NoRow
    /\ tasks[1].started_at /\ tasks[1].completed_at
    /\ tasks[2] # NoRow /\ tasks[2].status = "processing" /\ results[2] = NoRow

\* C24: a job is left in the queue for a task id only if the Submit
\* transaction that created the row commits: every queued job refers to a
\* committed row, or to the row of the Submit whose transaction is still open.
C24_NoOrphanJob ==
    \A h \in Handles :
        (jobs[h] # NoJob /\ jobs[h].pc = "queued") =>
            \/ tasks[jobs[h].task_id] # NoRow
            \/ sub.pc = "sent" /\ sub.id = jobs[h].task_id

\* C25: run_static_checks returns a list and never raises, for every content,
\* the empty one included.
C25_StaticChecksNeverRaise ==
    fn.pc = "checked" => ~fn.out.raised

====
